---- MODULE Spec2Model ----
(***************************************************************************)
(* SF 133 budget-execution pipeline: raw-data ingestion                    *)
(* (code/parse_sf133_raw_data.py), year processing (code/year_processor.py,*)
(* main.py) and the account summary merger (create_year_summaries.py,      *)
(* code/generate_summary.py).                                              *)
(*                                                                         *)
(* Text is modelled as a sequence of one-character strings, so that the    *)
(* splitting, stripping and replacing the code performs is computed and    *)
(* not assumed.  A missing cell (pandas NaN) of a text column is NaS, of   *)
(* a numeric column NaN; a number n is the one-element sequence <<n>>.     *)
(***************************************************************************)
EXTENDS Integers, Sequences, FiniteSets, TLC

\* ------------------------------------------------------------------------
\* Python str methods, on sequences of characters
\* ------------------------------------------------------------------------

Whitespace == {" ", "\t", "\n", "\r"}

Digits == {"0", "1", "2", "3", "4", "5", "6", "7", "8", "9"}

\* pandas NaN in a text cell
NaS == <<"NaN">>

\* pandas NaN in a numeric cell
NaN == << >>

\* s.startswith(p)
StartsWith(s, p) == Len(p) <= Len(s) /\ SubSeq(s, 1, Len(p)) = p

\* sub in s
Contains(s, sub) ==
    \E i \in 1..(Len(s) - Len(sub) + 1) : s[i] = sub[1] /\ SubSeq(s, i, i + Len(sub) - 1) = sub

\* s.find(sub) + 1 (0 when absent)
Find(s, sub) ==
    LET hits == {i \in 1..(Len(s) - Len(sub) + 1) :
                    s[i] = sub[1] /\ SubSeq(s, i, i + Len(sub) - 1) = sub}
    IN IF hits = {} THEN 0 ELSE CHOOSE i \in hits : \A j \in hits : i <= j

RECURSIVE Replace(_, _, _)
\* s.replace(old, new), old non-empty
Replace(s, old, new) ==
    LET i == Find(s, old) IN
    IF i = 0 THEN s
    ELSE SubSeq(s, 1, i - 1) \o new \o Replace(SubSeq(s, i + Len(old), Len(s)), old, new)

RECURSIVE Split(_, _)
\* s.split(sep), sep non-empty
Split(s, sep) ==
    LET i == Find(s, sep) IN
    IF i = 0 THEN <<s>>
    ELSE <<SubSeq(s, 1, i - 1)>> \o Split(SubSeq(s, i + Len(sep), Len(s)), sep)

RECURSIVE LStrip(_)
LStrip(s) == IF s # << >> /\ Head(s) \in Whitespace THEN LStrip(Tail(s)) ELSE s

RECURSIVE RStrip(_)
RStrip(s) ==
    IF s # << >> /\ s[Len(s)] \in Whitespace THEN RStrip(SubSeq(s, 1, Len(s) - 1)) ELSE s

\* s.strip()
Strip(s) == RStrip(LStrip(s))

RECURSIVE SplitWS(_)
\* s.split(): the maximal runs of non-whitespace characters
SplitWS(s) ==
    LET t == LStrip(s) IN
    IF t = << >> THEN << >>
    ELSE LET gaps == {i \in 1..Len(t) : t[i] \in Whitespace}
             n == IF gaps = {} THEN Len(t) ELSE (CHOOSE i \in gaps : \A j \in gaps : i <= j) - 1
         IN <<SubSeq(t, 1, n)>> \o SplitWS(SubSeq(t, n + 1, Len(t)))

RECURSIVE Join(_, _)
\* sep.join(parts)
Join(sep, parts) ==
    IF parts = << >> THEN << >>
    ELSE IF Len(parts) = 1 THEN parts[1]
         ELSE parts[1] \o sep \o Join(sep, Tail(parts))

\* s.isdigit()
IsDigit(s) == s # << >> /\ \A i \in 1..Len(s) : s[i] \in Digits

\* pd.isna(x) or x == '' for a text cell
IsBlank(s) == s = NaS \/ s = << >>

\* ------------------------------------------------------------------------
\* TAFS text clean-up shared by the two derivations
\* ------------------------------------------------------------------------

\* tafs_str.replace('_x000D_\n', '').replace('_x000D_', '').replace('\r\n', ' ')
\*         .replace('\r', ' ').replace('\n', ' '); ' '.join(tafs_str.split()).strip()
CleanTafs(tafs) ==
    LET a == Replace(tafs, <<"_", "x", "0", "0", "0", "D", "_", "\n">>, << >>)
        b == Replace(a, <<"_", "x", "0", "0", "0", "D", "_">>, << >>)
        c == Replace(b, <<"\r", "\n">>, <<" ">>)
        d == Replace(c, <<"\r">>, <<" ">>)
        e == Replace(d, <<"\n">>, <<" ">>)
    IN Strip(Join(<<" ">>, SplitWS(e)))

\* the part before the first ' - ' (the description separator)
CodePart(tafs_str) ==
    IF Contains(tafs_str, <<" ", "-", " ">>)
    THEN Strip(Split(tafs_str, <<" ", "-", " ">>)[1])
    ELSE Strip(tafs_str)

\* lines 231-244: FY1 and FY2 read from the period part ('/X', '/NN', 'NN/MM')
PeriodOf(period_part) ==
    IF period_part = <<"/", "X">> THEN << << >>, <<"X">> >>
    ELSE IF StartsWith(period_part, <<"/">>) THEN << << >>, Strip(Tail(period_part)) >>
    ELSE IF Contains(period_part, <<"/">>)
         THEN LET fy_parts == Split(period_part, <<"/">>) IN
              IF Len(fy_parts) = 2 THEN << Strip(fy_parts[1]), Strip(fy_parts[2]) >>
              ELSE << << >>, << >> >>
         ELSE << << >>, << >> >>

\* lines 227-246: the period part is the last of at least two tokens
PeriodOfParts(parts) ==
    IF Len(parts) >= 2 THEN PeriodOf(parts[Len(parts)]) ELSE << << >>, << >> >>

\* A plausible slip: the period is read from the last token of the whole text,
\* without cutting the description off first
parse_tafs_keeping_description(tafs) ==
    IF IsBlank(tafs) THEN << << >>, << >> >>
    ELSE PeriodOfParts(SplitWS(CleanTafs(tafs)))

\* parse_tafs_to_match_fy1_fy2: <<FY1, FY2>> derived from the fund-symbol text
parse_tafs_to_match_fy1_fy2(tafs) ==
    IF IsBlank(tafs) THEN << << >>, << >> >>
    ELSE PeriodOfParts(SplitWS(CodePart(CleanTafs(tafs))))

\* A plausible slip: the first part is taken whatever the number of parts
AllocOfPartsFirst(parts) ==
    IF Len(parts) >= 2 THEN Strip(parts[1]) ELSE << >>

\* lines 300-308: the middle part of AA-BB-CCCC, the first part of AA-CCCC
AllocOfParts(parts) ==
    IF Len(parts) >= 3 THEN Strip(parts[2])
    ELSE IF Len(parts) = 2 THEN Strip(parts[1])
         ELSE << >>

\* lines 291-298: the account part is what precedes the period
AccountPart(code_part, toks) ==
    IF Contains(code_part, <<" ", "/">>)
    THEN Strip(Split(code_part, <<" ", "/">>)[1])
    ELSE IF Contains(code_part, <<" ">>) /\ ~StartsWith(toks[2], <<"/">>)
         THEN Strip(toks[1])
         ELSE Strip(code_part)

AllocOfCode(code_part) == AllocOfParts(Split(AccountPart(code_part, SplitWS(code_part)), <<"-">>))

\* derive_alloc_from_tafs: the allocation (bureau) code derived from the text
derive_alloc_from_tafs(tafs) ==
    IF IsBlank(tafs) THEN << >>
    ELSE AllocOfCode(CodePart(CleanTafs(tafs)))

\* ------------------------------------------------------------------------
\* Fund symbols of the standard layout: <code> [<period>] [ - <description>]
\* ------------------------------------------------------------------------

Codes ==
    { <<"1", "7", "-", "1", "8", "0", "4">>,
      <<"7", "3", "-", "0", "1", "0", "0">>,
      <<"1", "2", "-", "2", "5", "0", "0">>,
      <<"1", "4", "-", "9", "1", "-", "0", "4", "0", "0">>,
      <<"9", "5", "-", "2", "3", "0", "0">>,
      <<"9", "5", "-", "1", "2", "-", "2", "3", "0", "0", "-", "0", "1">> }

Years == { <<"1", "2">>, <<"1", "3">>, <<"2", "0">>, <<"0", "6">>, <<"2", "4">>, <<"2", "5">> }

\* absent, /X, /NN, NN/MM, and the single-ended NN/X
Periods ==
    { [kind |-> "absent", nn |-> << >>, mm |-> << >>],
      [kind |-> "noyear", nn |-> << >>, mm |-> <<"X">>] }
    \cup { [kind |-> "single", nn |-> << >>, mm |-> y] : y \in Years }
    \cup { [kind |-> "multi", nn |-> x, mm |-> y] : x \in Years, y \in Years }
    \cup { [kind |-> "open", nn |-> x, mm |-> <<"X">>] : x \in Years }

\* "Operation and Maintenance, Navy"
DescNavy ==
    <<"O", "p", "e", "r", "a", "t", "i", "o", "n", " ", "a", "n", "d", " ",
      "M", "a", "i", "n", "t", "e", "n", "a", "n", "c", "e", ",", " ", "N", "a", "v", "y">>

\* "Salaries and Expenses"
DescSalaries ==
    <<"S", "a", "l", "a", "r", "i", "e", "s", " ", "a", "n", "d", " ",
      "E", "x", "p", "e", "n", "s", "e", "s">>

\* "Grants - FY 12/13 /X": a description that itself holds a separator and period markers
DescGrants ==
    <<"G", "r", "a", "n", "t", "s", " ", "-", " ", "F", "Y", " ",
      "1", "2", "/", "1", "3", " ", "/", "X">>

\* "Salaries_x000D_\nand Expenses": a description broken by a spreadsheet line break
DescBroken ==
    <<"S", "a", "l", "a", "r", "i", "e", "s", "_", "x", "0", "0", "0", "D", "_", "\n",
      "a", "n", "d", " ", "E", "x", "p", "e", "n", "s", "e", "s">>

\* << >> stands for a fund symbol without description
Descs == { << >>, DescNavy, DescSalaries, DescGrants, DescBroken }

FundSymbols == [code : Codes, period : Periods, desc : Descs]

PeriodText(p) ==
    CASE p.kind = "absent" -> << >>
      [] p.kind = "noyear" -> <<"/", "X">>
      [] p.kind = "single" -> <<"/">> \o p.mm
      [] p.kind \in {"multi", "open"} -> p.nn \o <<"/">> \o p.mm

\* the fund-symbol text of a structured fund symbol
TafsText(f) ==
    f.code
    \o (IF f.period.kind = "absent" THEN << >> ELSE <<" ">> \o PeriodText(f.period))
    \o (IF f.desc = << >> THEN << >> ELSE <<" ", "-", " ">> \o f.desc)

\* ------------------------------------------------------------------------
\* Cells of the Raw Data sheet
\* ------------------------------------------------------------------------

\* A cell of the FY1, FY2 or ALLOC column as pandas reads it: missing, a number,
\* or text
Na == [t |-> "nan", n |-> 0, s |-> << >>]

Num(n) == [t |-> "num", n |-> n, s |-> << >>]

Txt(s) == [t |-> "txt", n |-> 0, s |-> s]

\* dtype pandas gives a column holding these cells
ColumnDtype(cells) ==
    IF \E c \in cells : c.t = "txt" THEN "object"
    ELSE IF \E c \in cells : c.t = "nan" THEN "float64"
         ELSE "int64"

DigitOf == <<"0", "1", "2", "3", "4", "5", "6", "7", "8", "9">>

RECURSIVE IntToStr(_)
\* str(n) for n >= 0
IntToStr(n) ==
    IF n < 10 THEN <<DigitOf[n + 1]>>
    ELSE IntToStr(n \div 10) \o <<DigitOf[(n % 10) + 1]>>

RECURSIVE StripLeadingZeros(_)
\* str(int(s)) for a digit string s
StripLeadingZeros(s) ==
    IF Len(s) > 1 /\ Head(s) = "0" THEN StripLeadingZeros(Tail(s)) ELSE s

\* str(field) of a non-missing cell in a column of the given dtype
PyStr(cell, dtype) ==
    IF cell.t = "txt" THEN cell.s
    ELSE IntToStr(cell.n) \o (IF dtype = "float64" THEN <<".", "0">> ELSE << >>)

UpperCase == <<"A", "B", "C", "D", "E", "F", "G", "H", "I", "J", "K", "L", "M",
               "N", "O", "P", "Q", "R", "S", "T", "U", "V", "W", "X", "Y", "Z">>

LowerCase == <<"a", "b", "c", "d", "e", "f", "g", "h", "i", "j", "k", "l", "m",
               "n", "o", "p", "q", "r", "s", "t", "u", "v", "w", "x", "y", "z">>

\* s.lower()
Lower(s) ==
    [i \in 1..Len(s) |->
        IF \E k \in 1..26 : UpperCase[k] = s[i]
        THEN LowerCase[CHOOSE k \in 1..26 : UpperCase[k] = s[i]]
        ELSE s[i]]

\* s.upper()
Upper(s) ==
    [i \in 1..Len(s) |->
        IF \E k \in 1..26 : LowerCase[k] = s[i]
        THEN UpperCase[CHOOSE k \in 1..26 : LowerCase[k] = s[i]]
        ELSE s[i]]

\* the '.' branch of normalize_fy_field: float(field_str) succeeds on
\* <digits>.<digits> and the text is replaced when the value is integral
DecimalToInt(field_str) ==
    LET p == Split(field_str, <<".">>) IN
    IF /\ Len(p) = 2
       /\ p[1] \o p[2] # << >>
       /\ \A i \in 1..Len(p[1]) : p[1][i] \in Digits
       /\ \A i \in 1..Len(p[2]) : p[2][i] = "0"
    THEN IF p[1] = << >> THEN <<"0">> ELSE StripLeadingZeros(p[1])
    ELSE field_str

\* str(int(s)).zfill(2) for a digit string of at most two characters
ZFill2(s) ==
    LET t == StripLeadingZeros(s) IN IF Len(t) < 2 THEN <<"0">> \o t ELSE t

\* A plausible slip: the text is compared as it is written
normalize_fy_text_verbatim(field_str) == Strip(field_str)

\* normalize_fy_field on the text str(field)
normalize_fy_text(field_str) ==
    IF field_str = << >> \/ field_str = <<"n", "a", "n">> THEN << >>
    ELSE
      LET a == Strip(field_str)
          b == IF Contains(a, <<".">>) THEN DecimalToInt(a) ELSE a
          c == IF IsDigit(b) /\ Len(b) <= 2 THEN ZFill2(b) ELSE b
      IN IF Upper(c) = <<"X">> THEN <<"X">> ELSE c

\* normalize_fy_field applied to a cell of an authoritative column
normalize_fy_field(cell, dtype) ==
    IF cell.t = "nan" THEN << >> ELSE normalize_fy_text(PyStr(cell, dtype))

\* ------------------------------------------------------------------------
\* Units and columns
\* ------------------------------------------------------------------------

\* RAW_DATA_COLUMN_MAPPING
RAW_DATA_COLUMN_MAPPING ==
    [c \in {"AMT_OCT", "AMT_NOV", "AMT_DEC", "AMT_JAN", "AMT_FEB", "AMT_MAR",
            "AMT_APR", "AMT_MAY", "AMT_JUN", "AMT_JUL", "AMT_AUG", "AMT_SEP",
            "AMT1", "AMT2", "AMT3", "AMT4"} |->
        CASE c = "AMT_OCT" -> "Oct" [] c = "AMT_NOV" -> "Nov" [] c = "AMT_DEC" -> "Dec"
          [] c = "AMT_JAN" -> "Jan" [] c = "AMT_FEB" -> "Feb" [] c = "AMT_MAR" -> "Mar"
          [] c = "AMT_APR" -> "Apr" [] c = "AMT_MAY" -> "May" [] c = "AMT_JUN" -> "Jun"
          [] c = "AMT_JUL" -> "Jul" [] c = "AMT_AUG" -> "Aug" [] c = "AMT_SEP" -> "Sep"
          [] c = "AMT1" -> "Dec" [] c = "AMT2" -> "Mar"
          [] c = "AMT3" -> "Jun" [] c = "AMT4" -> "Sep"]

\* the metadata columns the unit multiplier skips
UnscaledColumns ==
    {"LINENO", "RPT_YR", "TRAG", "TRACCT", "ALLOC", "FY1", "FY2", "SECTION_NO", "LINE_TYPE"}

\* "thousand", "dollar"
TokThousand == <<"t", "h", "o", "u", "s", "a", "n", "d">>

TokDollar == <<"d", "o", "l", "l", "a", "r">>

\* A plausible slip: the 'dollar' test comes first
detect_file_units_dollar_first(wb) ==
    IF ~wb.detail.readable THEN 1
    ELSE LET text_content == Join(<<" ">>, [i \in 1..Len(wb.detail.cells) |-> Lower(wb.detail.cells[i])])
         IN IF Contains(text_content, TokDollar) THEN 1
            ELSE IF Contains(text_content, TokThousand) THEN 1000
                 ELSE 1

\* detect_file_units: 1000 for thousands, 1 for dollars; wb.detail is the rows
\* read from the 'TAFS detail' sheet, not readable when the read raises
detect_file_units(wb) ==
    IF ~wb.detail.readable THEN 1
    ELSE LET text_content == Join(<<" ">>, [i \in 1..Len(wb.detail.cells) |-> Lower(wb.detail.cells[i])])
         IN IF Contains(text_content, TokThousand) THEN 1000
            ELSE IF Contains(text_content, TokDollar) THEN 1
                 ELSE 1

\* numeric cell times the multiplier (NaN stays NaN)
Scaled(x, m) == IF x = NaN THEN NaN ELSE <<x[1] * m>>

\* df.select_dtypes(include=[np.number]).columns of the Raw Data sheet
NumericColumns(wb) ==
    wb.month_cols
    \cup (IF wb.has_lineno THEN {"LINENO"} ELSE {})
    \cup (IF wb.has_tr THEN {"TRACCT", "TRAG"} ELSE {})
    \cup (IF wb.has_fy /\ ColumnDtype({wb.rows[i].FY1 : i \in 1..Len(wb.rows)}) # "object"
          THEN {"FY1"} ELSE {})
    \cup (IF wb.has_fy /\ ColumnDtype({wb.rows[i].FY2 : i \in 1..Len(wb.rows)}) # "object"
          THEN {"FY2"} ELSE {})
    \cup (IF wb.has_alloc /\ ColumnDtype({wb.rows[i].ALLOC : i \in 1..Len(wb.rows)}) # "object"
          THEN {"ALLOC"} ELSE {})

\* A plausible slip: every numeric column is scaled, the metadata columns included
ColumnsToScaleAll(wb) == NumericColumns(wb)

\* the columns the multiplier is applied to
ColumnsToScale(wb) == NumericColumns(wb) \ UnscaledColumns

ScaledCell(c, m) == IF c.t = "num" THEN Num(c.n * m) ELSE c

\* lines 158-165: df[col] = df[col] * unit_multiplier
ApplyUnitMultiplier(wb, m) ==
    IF m = 1 THEN wb.rows
    ELSE LET cols == ColumnsToScale(wb) IN
         [i \in 1..Len(wb.rows) |->
            LET r == wb.rows[i] IN
            [r EXCEPT
               !.LINENO = IF "LINENO" \in cols THEN Scaled(@, m) ELSE @,
               !.TRACCT = IF "TRACCT" \in cols THEN Scaled(@, m) ELSE @,
               !.TRAG   = IF "TRAG" \in cols THEN Scaled(@, m) ELSE @,
               !.FY1    = IF "FY1" \in cols THEN ScaledCell(@, m) ELSE @,
               !.FY2    = IF "FY2" \in cols THEN ScaledCell(@, m) ELSE @,
               !.ALLOC  = IF "ALLOC" \in cols THEN ScaledCell(@, m) ELSE @,
               !.amt    = [c \in DOMAIN @ |-> IF c \in cols THEN Scaled(@[c], m) ELSE @[c]]]]

\* ------------------------------------------------------------------------
\* Ordering of text and of grouping keys (pandas sorts the groups by key)
\* ------------------------------------------------------------------------

\* the characters of the model in code-point order
CodePoints ==
    <<"\t", "\n", "\r", " ", "(", ")", ",", "-", ".", "/",
      "0", "1", "2", "3", "4", "5", "6", "7", "8", "9",
      "A", "B", "C", "D", "E", "F", "G", "H", "I", "J", "K", "L", "M",
      "N", "O", "P", "Q", "R", "S", "T", "U", "V", "W", "X", "Y", "Z", "_",
      "a", "b", "c", "d", "e", "f", "g", "h", "i", "j", "k", "l", "m",
      "n", "o", "p", "q", "r", "s", "t", "u", "v", "w", "x", "y", "z">>

Ord(c) == CHOOSE i \in 1..Len(CodePoints) : CodePoints[i] = c

\* a < b for two texts
StrLess(a, b) ==
    \/ Len(a) < Len(b) /\ SubSeq(b, 1, Len(a)) = a
    \/ \E i \in 1..Len(a) :
          /\ i <= Len(b)
          /\ SubSeq(a, 1, i - 1) = SubSeq(b, 1, i - 1)
          /\ Ord(a[i]) < Ord(b[i])

\* k1 < k2 for two grouping keys: text components by code point, numbers by value
KeyLess(k1, k2) ==
    \E i \in 1..Len(k1) :
       /\ \A j \in 1..(i - 1) : k1[j] = k2[j]
       /\ IF i \in {3, 7, 8} THEN k1[i][1] < k2[i][1] ELSE StrLess(k1[i], k2[i])

RECURSIVE SortKeys(_)
\* the keys of a set in ascending order
SortKeys(S) ==
    IF S = {} THEN << >>
    ELSE LET m == CHOOSE k \in S : \A o \in S \ {k} : KeyLess(k, o)
         IN <<m>> \o SortKeys(S \ {m})

\* ------------------------------------------------------------------------
\* parse_sf133_raw_data: one workbook
\* ------------------------------------------------------------------------

\* find_agency_from_raw_data: the AGENCY column of the model holds names of
\* TARGET_AGENCIES, which the matching loop maps to themselves
find_agency_from_raw_data(wb) ==
    IF wb.AGENCY = "NaN" THEN "Unknown Agency" ELSE wb.AGENCY

\* lines 191-201: rows with a line number in 1000..9999
StandardLine(r) == r.LINENO # NaN /\ r.LINENO[1] >= 1000 /\ r.LINENO[1] <= 9999

\* lines 250-251, 311: the row with its DERIVED_FY1, DERIVED_FY2, DERIVED_ALLOC
DerivedFields(r) ==
    LET fy == parse_tafs_to_match_fy1_fy2(r.TAFS) IN
    r @@ [DERIVED_FY1 |-> fy[1], DERIVED_FY2 |-> fy[2],
          DERIVED_ALLOC |-> derive_alloc_from_tafs(r.TAFS)]

FY1Dtype(wb) == ColumnDtype({wb.rows[i].FY1 : i \in 1..Len(wb.rows)})

FY2Dtype(wb) == ColumnDtype({wb.rows[i].FY2 : i \in 1..Len(wb.rows)})

AllocDtype(wb) == ColumnDtype({wb.rows[i].ALLOC : i \in 1..Len(wb.rows)})

\* A plausible slip: a row passes as soon as its end period agrees
FY_mismatch_end_period_only(wb, r) ==
    LET fy2 == normalize_fy_field(r.FY2, FY2Dtype(wb)) IN
    fy2 # << >> /\ fy2 # normalize_fy_text(r.DERIVED_FY2)

\* lines 357-368: has_fy*_data & ~fy*_matches for one row
FY_mismatch(wb, r) ==
    LET fy1 == normalize_fy_field(r.FY1, FY1Dtype(wb))
        fy2 == normalize_fy_field(r.FY2, FY2Dtype(wb))
    IN \/ fy1 # << >> /\ fy1 # normalize_fy_text(r.DERIVED_FY1)
       \/ fy2 # << >> /\ fy2 # normalize_fy_text(r.DERIVED_FY2)

\* lines 402-409: has_alloc_data & ~alloc_matches for one row
ALLOC_mismatch(wb, r) ==
    LET a == normalize_fy_field(r.ALLOC, AllocDtype(wb)) IN
    a # << >> /\ a # normalize_fy_text(r.DERIVED_ALLOC)

\* A plausible slip: the allocation code is left out of the grouping key
GroupKeyWithoutAlloc(wb, r) ==
    <<r.BUREAU, r.OMB_ACCT, r.LINENO, r.DERIVED_FY1, r.DERIVED_FY2, << >> >>
    \o (IF wb.has_tr THEN <<r.TRACCT, r.TRAG>> ELSE << >>)

\* lines 205, 432-438: grouping_cols of a row
GroupKey(wb, r) ==
    <<r.BUREAU, r.OMB_ACCT, r.LINENO, r.DERIVED_FY1, r.DERIVED_FY2, r.DERIVED_ALLOC>>
    \o (IF wb.has_tr THEN <<r.TRACCT, r.TRAG>> ELSE << >>)

\* line 462: dropna(subset=grouping_cols) keeps the row
KeyComplete(wb, r) ==
    /\ r.BUREAU # NaS
    /\ r.OMB_ACCT # NaS
    /\ wb.has_tr => (r.TRACCT # NaN /\ r.TRAG # NaN)

RECURSIVE SumCells(_)
\* groupby 'sum': missing cells are skipped, the sum of none is 0
SumCells(cells) ==
    IF cells = << >> THEN 0
    ELSE (IF Head(cells) = NaN THEN 0 ELSE Head(cells)[1]) + SumCells(Tail(cells))

\* A plausible slip: the amount of the first row of the group is kept
AggregateFirstAmount(cells) == IF cells = << >> \/ Head(cells) = NaN THEN 0 ELSE Head(cells)[1]

\* the reducer of the month columns
AggregateAmount(cells) == SumCells(cells)

\* groupby 'first': the first non-missing cell, missing when there is none
FirstOf(cells, missing) ==
    IF \E i \in 1..Len(cells) : cells[i] # missing
    THEN cells[CHOOSE i \in 1..Len(cells) :
                  cells[i] # missing /\ \A j \in 1..(i - 1) : cells[j] = missing]
    ELSE missing

\* the month keys the columns of a workbook are renamed to (lines 175-181)
MonthKeys(wb) == {RAW_DATA_COLUMN_MAPPING[c] : c \in wb.month_cols}

\* the cell of month key m in a row of the renamed table
MonthCell(wb, r, m) == r.amt[CHOOSE c \in wb.month_cols : RAW_DATA_COLUMN_MAPPING[c] = m]

\* line 496: one output row per group
GroupRow(wb, rows, k, agency) ==
    LET g == SelectSeq(rows, LAMBDA r : GroupKey(wb, r) = k) IN
    [BUREAU |-> g[1].BUREAU, OMB_ACCT |-> g[1].OMB_ACCT, LINENO |-> g[1].LINENO,
     DERIVED_FY1 |-> g[1].DERIVED_FY1, DERIVED_FY2 |-> g[1].DERIVED_FY2,
     DERIVED_ALLOC |-> g[1].DERIVED_ALLOC,
     TRACCT |-> IF wb.has_tr THEN g[1].TRACCT ELSE NaN,
     TRAG |-> IF wb.has_tr THEN g[1].TRAG ELSE NaN,
     TAFS |-> FirstOf([i \in 1..Len(g) |-> g[i].TAFS], NaS),
     FY1 |-> FirstOf([i \in 1..Len(g) |-> g[i].FY1], Na),
     FY2 |-> FirstOf([i \in 1..Len(g) |-> g[i].FY2], Na),
     ALLOC |-> FirstOf([i \in 1..Len(g) |-> g[i].ALLOC], Na),
     Agency |-> agency, Source_File |-> wb.name,
     amt |-> [m \in MonthKeys(wb) |->
                <<AggregateAmount([i \in 1..Len(g) |-> MonthCell(wb, g[i], m)])>>]]

\* a row of a workbook without LINENO column, returned as read (lines 516-520)
PlainRow(wb, r, agency) ==
    [BUREAU |-> r.BUREAU, OMB_ACCT |-> r.OMB_ACCT, LINENO |-> NaN,
     DERIVED_FY1 |-> NaS, DERIVED_FY2 |-> NaS, DERIVED_ALLOC |-> NaS,
     TRACCT |-> IF wb.has_tr THEN r.TRACCT ELSE NaN,
     TRAG |-> IF wb.has_tr THEN r.TRAG ELSE NaN,
     TAFS |-> r.TAFS, FY1 |-> r.FY1, FY2 |-> r.FY2, ALLOC |-> r.ALLOC,
     Agency |-> agency, Source_File |-> wb.name,
     amt |-> [m \in MonthKeys(wb) |-> MonthCell(wb, r, m)]]

\* the file names line 130 skips
consolidated_files == {"2668331098.xlsx"}

NoFrame == [months |-> {}, rows |-> << >>]

\* what parse_sf133_raw_data returns and prints: ret is "df" or "None"; raised
\* names the exception the handler of line 522 caught ("" when none); mismatches
\* are the rows printed by a failed cross-validation; dropped counts the rows the
\* NaN filter of line 462 removed
Outcome(ret, frame, raised, mismatches, dropped) ==
    [ret |-> ret, df |-> frame, raised |-> raised, mismatches |-> mismatches,
     dropped |-> dropped]

\* A plausible slip: the rows are returned without being grouped
AggregateUngrouped(wb, df_filtered, keys, agency_name, dropped) ==
    Outcome("df",
            [months |-> MonthKeys(wb),
             rows |-> [j \in 1..Len(df_filtered) |->
                         GroupRow(wb, <<df_filtered[j]>>, GroupKey(wb, df_filtered[j]), agency_name)]],
            "", << >>, dropped)

\* lines 478-512: the groups in key order, one row each
Aggregate(wb, df_filtered, keys, agency_name, dropped) ==
    Outcome("df",
            [months |-> MonthKeys(wb),
             rows |-> [j \in 1..Len(keys) |-> GroupRow(wb, df_filtered, keys[j], agency_name)]],
            "", << >>, dropped)

\* A plausible slip: the rows the NaN filter removed are not counted
GroupRowsUncounted(wb, df, df_filtered, agency_name) ==
    IF Len(df_filtered) = 0
    THEN Outcome("None", NoFrame, "ZeroDivisionError", << >>, 0)
    ELSE Aggregate(wb, df_filtered,
                   SortKeys({GroupKey(wb, df_filtered[i]) : i \in 1..Len(df_filtered)}),
                   agency_name, 0)

\* lines 460-476: the rows with a complete key; the ratio printed at line 472
\* divides by their number
GroupRows(wb, df, df_filtered, agency_name) ==
    IF Len(df_filtered) = 0
    THEN Outcome("None", NoFrame, "ZeroDivisionError", << >>, Len(df) - Len(df_filtered))
    ELSE Aggregate(wb, df_filtered,
                   SortKeys({GroupKey(wb, df_filtered[i]) : i \in 1..Len(df_filtered)}),
                   agency_name, Len(df) - Len(df_filtered))

\* lines 357-424: the two cross-validations raise on the first that fails
Validate(wb, df, fy_bad, alloc_bad, agency_name) ==
    IF fy_bad # << >> THEN Outcome("None", NoFrame, "ValueError", fy_bad, 0)
    ELSE IF alloc_bad # << >> THEN Outcome("None", NoFrame, "ValueError", alloc_bad, 0)
    ELSE GroupRows(wb, df, SelectSeq(df, LAMBDA r : KeyComplete(wb, r)), agency_name)

\* lines 191-424: the standard lines, their derived fields, the cross-validations
ParseStandard(wb, scaled, df, agency_name) ==
    Validate(wb, df,
             IF wb.has_fy THEN SelectSeq(df, LAMBDA r : FY_mismatch(scaled, r)) ELSE << >>,
             IF wb.has_alloc THEN SelectSeq(df, LAMBDA r : ALLOC_mismatch(scaled, r)) ELSE << >>,
             agency_name)

\* A plausible slip: the range filter of line 200 is computed and not applied
DerivedRowsWithLineNumber(rows) ==
    LET numbered == SelectSeq(rows, LAMBDA r : r.LINENO # NaN) IN
    [i \in 1..Len(numbered) |-> DerivedFields(numbered[i])]

\* lines 191-251: df[(LINENO >= 1000) & (LINENO <= 9999)] with the derived columns
DerivedRows(rows) ==
    LET standard == SelectSeq(rows, StandardLine) IN
    [i \in 1..Len(standard) |-> DerivedFields(standard[i])]

\* lines 167-520 on the sheet after the unit multiplier; with_lineno is the number
\* printed at line 193
ParseScaled(wb, scaled, agency_name) ==
    IF ~wb.has_lineno
    THEN Outcome("df",
                 [months |-> MonthKeys(wb),
                  rows |-> [i \in 1..Len(scaled.rows) |-> PlainRow(wb, scaled.rows[i], agency_name)]],
                 "", << >>, 0)
    ELSE [with_lineno |-> Len(SelectSeq(scaled.rows, LAMBDA r : r.LINENO # NaN))]
         @@ ParseStandard(wb, scaled, DerivedRows(scaled.rows), agency_name)

\* parse_sf133_raw_data; read is the number of rows printed at line 156
parse_sf133_raw_data(wb) ==
    IF wb.name \in consolidated_files THEN Outcome("None", NoFrame, "", << >>, 0)
    ELSE IF wb.sheets = "unreadable" THEN Outcome("None", NoFrame, "Exception", << >>, 0)
    ELSE IF wb.sheets = "no Raw Data" THEN Outcome("None", NoFrame, "", << >>, 0)
    ELSE IF Len(wb.rows) = 0 THEN Outcome("None", NoFrame, "", << >>, 0)
    ELSE [read |-> Len(wb.rows)]
         @@ ParseScaled(wb, [wb EXCEPT !.rows = ApplyUnitMultiplier(wb, detect_file_units(wb))],
                        find_agency_from_raw_data(wb))

\* ------------------------------------------------------------------------
\* parse_all_sf133_raw_data: the combined table
\* ------------------------------------------------------------------------

\* clean_text_field (lines 562-571)
clean_text_field(text) ==
    IF text = NaS THEN text
    ELSE LET a == Replace(text, <<"_", "x", "0", "0", "0", "D", "_", "\n">>, << >>)
             b == Replace(a, <<"_", "x", "0", "0", "0", "D", "_">>, << >>)
             c == Replace(b, <<"\r", "\n">>, <<" ">>)
             d == Replace(c, <<"\r">>, <<" ">>)
             e == Replace(d, <<"\n">>, <<" ">>)
         IN Join(<<" ">>, SplitWS(e))

RECURSIVE ConcatRows(_, _)
\* the rows of the frames one after the other, a month column a frame lacks
\* holding NaN
ConcatRows(frames, months) ==
    IF frames = << >> THEN << >>
    ELSE LET f == Head(frames) IN
         [i \in 1..Len(f.rows) |->
            [f.rows[i] EXCEPT
               !.amt = [m \in months |-> IF m \in f.months THEN f.rows[i].amt[m] ELSE NaN],
               !.TAFS = clean_text_field(@),
               !.BUREAU = clean_text_field(@)]]
         \o ConcatRows(Tail(frames), months)

\* lines 559-577: pd.concat(all_data, ignore_index=True) and the text clean-up
CombinedTable(frames) ==
    LET months == UNION {frames[i].months : i \in 1..Len(frames)} IN
    [months |-> months, rows |-> ConcatRows(frames, months)]

\* a text cell after to_csv and read_csv: the empty text is read back as NaN
CsvText(t) == IF t = << >> THEN NaS ELSE t

\* pd.read_csv of a table written by to_csv
read_csv(table) ==
    [table EXCEPT !.rows =
        [i \in 1..Len(table.rows) |->
            [table.rows[i] EXCEPT
                !.TAFS = CsvText(@), !.BUREAU = CsvText(@), !.OMB_ACCT = CsvText(@),
                !.DERIVED_FY1 = CsvText(@), !.DERIVED_FY2 = CsvText(@),
                !.DERIVED_ALLOC = CsvText(@)]]]

\* a file that does not exist
NoFile == [months |-> {}, rows |-> << >>, exists |-> FALSE]

File(table) == [months |-> table.months, rows |-> table.rows, exists |-> TRUE]

\* A plausible slip: the table is appended to the file a previous run left
to_csv_appending(old_file, table) ==
    IF old_file.exists
    THEN File([months |-> table.months, rows |-> old_file.rows \o table.rows])
    ELSE File(table)

\* line 582: combined_df.to_csv(output_path, index=False) replaces the file a
\* previous run left at output_path
to_csv(old_file, table) == File(table)

\* ------------------------------------------------------------------------
\* SF133YearProcessor._analyze_year_data
\* ------------------------------------------------------------------------

\* ALL_MONTHS, in fiscal-year order
ALL_MONTHS == <<"Oct", "Nov", "Dec", "Jan", "Feb", "Mar", "Apr", "May", "Jun", "Jul", "Aug", "Sep">>

MonthSet == {ALL_MONTHS[i] : i \in 1..Len(ALL_MONTHS)}

Abs(x) == IF x < 0 THEN -x ELSE x

\* df[col].sum()
ColumnTotal(table, m) == SumCells([i \in 1..Len(table.rows) |-> table.rows[i].amt[m]])

\* a month column counts as data when abs(total) > this
HasDataThreshold == 1000

available_months(table) ==
    {m \in MonthSet \cap table.months : Abs(ColumnTotal(table, m)) > HasDataThreshold}

missing_months(table) == MonthSet \ available_months(table)

\* the fiscal year whose table is the coverage baseline
BaselineYear == 2025

\* min_coverage_pct
MinCoveragePct == 80

\* df.groupby('Agency')['TAFS'].nunique() and df['TAFS'].nunique()
TafsCounts(table) ==
    LET named == {i \in 1..Len(table.rows) : table.rows[i].TAFS # NaS} IN
    [tafs_by_agency |->
        [a \in {table.rows[i].Agency : i \in 1..Len(table.rows)} |->
            Cardinality({table.rows[i].TAFS : i \in {j \in named : table.rows[j].Agency = a}})],
     total_accounts |-> Cardinality({table.rows[i].TAFS : i \in named})]

\* _load_baseline_tafs_data: the defaults when the FY2025 table does not exist
load_baseline_tafs_data(baseline_file) ==
    IF ~baseline_file.exists THEN [tafs_by_agency |-> << >>, total_accounts |-> 0]
    ELSE TafsCounts(read_csv(baseline_file))

\* A plausible slip: every agency of the baseline is taken as covered
validate_tafs_coverage_per_total_only(df, baseline_tafs) ==
    IF baseline_tafs.total_accounts > 0
    THEN TafsCounts(df).total_accounts * 100 >= MinCoveragePct * baseline_tafs.total_accounts
    ELSE FALSE

\* _validate_tafs_coverage: the dictionary passed in always has the key
\* 'tafs_by_agency', so the early return of line 315 is never taken
validate_tafs_coverage(df, baseline_tafs) ==
    LET current == TafsCounts(df)
        count(a) == IF a \in DOMAIN current.tafs_by_agency THEN current.tafs_by_agency[a] ELSE 0
        issues == {a \in DOMAIN baseline_tafs.tafs_by_agency :
                     IF baseline_tafs.tafs_by_agency[a] > 0
                     THEN count(a) * 100 < MinCoveragePct * baseline_tafs.tafs_by_agency[a]
                     ELSE TRUE}
        overall_ok == IF baseline_tafs.total_accounts > 0
                      THEN current.total_accounts * 100 >= MinCoveragePct * baseline_tafs.total_accounts
                      ELSE FALSE
    IN issues = {} /\ overall_ok

\* A plausible slip: a missing October fails a completed year like any month
analyze_year_data_october_required(year_file, is_current_fiscal_year, baseline_file) ==
    LET df == read_csv(year_file) IN
    IF ~is_current_fiscal_year /\ missing_months(df) # {} THEN FALSE
    ELSE validate_tafs_coverage(df, load_baseline_tafs_data(baseline_file))

\* _analyze_year_data: validation_passed for the year's table; baseline_file is
\* site/data/sf133_2025_master.csv as it is on disk when the analysis runs
analyze_year_data(year_file, is_current_fiscal_year, baseline_file) ==
    LET df == read_csv(year_file)
        critical_missing_months == missing_months(df) \ {"Oct"}
    IN IF ~is_current_fiscal_year /\ critical_missing_months # {} THEN FALSE
       ELSE /\ is_current_fiscal_year \/ critical_missing_months = {}
            /\ validate_tafs_coverage(df, load_baseline_tafs_data(baseline_file))

\* ------------------------------------------------------------------------
\* The account summary merger
\* ------------------------------------------------------------------------

\* n / d rounded to the nearest integer, ties to even, d # 0: round(x, 1) on
\* tenths (the model's amounts give no tie)
RoundHalfEven(n, d) ==
    LET nn == IF d < 0 THEN -n ELSE n
        dd == Abs(d)
        q == nn \div dd
        r == nn - q * dd
    IN IF 2 * r < dd THEN q
       ELSE IF 2 * r > dd THEN q + 1
            ELSE IF q % 2 = 0 THEN q ELSE q + 1

\* dollars per tenth of a million: round(x / 1_000_000, 1) counts these
DollarsPerTenthMillion == 100000

\* round(float(x) / 1_000_000, 1), in tenths of a million (NaN stays NaN)
Millions(x) == IF x = NaN THEN NaN ELSE <<RoundHalfEven(x[1], DollarsPerTenthMillion)>>

\* A plausible slip: a negative budget authority is treated like a zero one
PercentageClamped(unob, ba) ==
    IF ba # NaN /\ ba[1] <= 0 THEN (IF unob # NaN /\ unob[1] = 0 THEN <<0>> ELSE <<1000>>)
    ELSE IF unob = NaN \/ ba = NaN THEN NaN
         ELSE <<RoundHalfEven(1000 * unob[1], ba[1])>>

\* lines 170-176 and 198 of create_year_summaries.py (154-160, 184 of
\* generate_summary.py): round(pct, 1) in tenths of a percent
Percentage(unob, ba) ==
    IF ba # NaN /\ ba[1] = 0 THEN (IF unob # NaN /\ unob[1] = 0 THEN <<0>> ELSE <<1000>>)
    ELSE IF unob = NaN \/ ba = NaN THEN NaN
         ELSE <<RoundHalfEven(1000 * unob[1], ba[1])>>

\* one summary_data entry; amt_2490 and amt_2500 are the two cells of the merged
\* row the entry was computed from
SummaryRecord(agency, bureau, tafs_text, unob, ba) ==
    [Agency |-> agency, Bureau |-> bureau, TAFS |-> tafs_text,
     amt_2490 |-> unob, amt_2500 |-> ba,
     Unobligated_Balance_M |-> Millions(unob), Budget_Authority_M |-> Millions(ba),
     Percentage_Unobligated |-> Percentage(unob, ba)]

RECURSIVE Flatten(_)
Flatten(seqs) == IF seqs = << >> THEN << >> ELSE Head(seqs) \o Flatten(Tail(seqs))

\* the two rows agree on every column of the join key (NaN keys match each other)
SameKey(on, a, b) == \A f \in on : a[f] = b[f]

\* A plausible slip: a left join, which keeps the left rows without partner
MergeLeft(left, right, on) ==
    Flatten([i \in 1..Len(left) |->
        LET m == SelectSeq(right, LAMBDA r : SameKey(on, left[i], r)) IN
        IF m = << >> THEN << <<left[i], left[i]>> >>
        ELSE [j \in 1..Len(m) |-> <<left[i], m[j]>>]])

\* pd.merge(left, right, on=...): the inner join, every pair of rows with equal
\* keys, in the order of the left rows
Merge(left, right, on) ==
    Flatten([i \in 1..Len(left) |->
        LET m == SelectSeq(right, LAMBDA r : SameKey(on, left[i], r)) IN
        [j \in 1..Len(m) |-> <<left[i], m[j]>>]])

\* the agency names of the model in alphabetical order (sort_values on 'Agency')
AgencyOrder == <<"Department of Education", "Other Independent Agencies", "Unknown Agency">>

AgencyRank(a) == CHOOSE i \in 1..Len(AgencyOrder) : AgencyOrder[i] = a

\* a sorts strictly before b: Agency ascending, Budget_Authority_M descending,
\* NaN last
SortsBefore(a, b) ==
    \/ AgencyRank(a.Agency) < AgencyRank(b.Agency)
    \/ /\ a.Agency = b.Agency
       /\ a.Budget_Authority_M # NaN
       /\ b.Budget_Authority_M = NaN \/ a.Budget_Authority_M[1] > b.Budget_Authority_M[1]

RECURSIVE sort_values(_)
\* summary_df.sort_values(['Agency', 'Budget_Authority_M'], ascending=[True, False])
sort_values(records) ==
    IF records = << >> THEN << >>
    ELSE LET sorted == sort_values(SubSeq(records, 1, Len(records) - 1))
             x == records[Len(records)]
             k == Cardinality({i \in 1..Len(sorted) : ~SortsBefore(x, sorted[i])})
         IN SubSeq(sorted, 1, k) \o <<x>> \o SubSeq(sorted, k + 1, Len(sorted))

\* the month keys from the latest to the earliest of the fiscal year
ReversedMonths == [i \in 1..12 |-> ALL_MONTHS[13 - i]]

\* find_latest_month: "" when no month column has data
find_latest_month(df) ==
    LET has(m) == /\ m \in df.months
                  /\ \E i \in 1..Len(df.rows) : df.rows[i].amt[m] # NaN
                  /\ \E i \in 1..Len(df.rows) : df.rows[i].amt[m] # <<0>>
    IN IF \E i \in 1..12 : has(ReversedMonths[i])
       THEN ReversedMonths[CHOOSE i \in 1..12 :
               has(ReversedMonths[i]) /\ \A j \in 1..(i - 1) : ~has(ReversedMonths[j])]
       ELSE ""

OIA == "Other Independent Agencies"

\* ------------------------------------------------------------------------
\* parse_tafs_components (generate_summary.py, create_year_summaries.py)
\* ------------------------------------------------------------------------

\* 'No Year'
NoYear == <<"N", "o", " ", "Y", "e", "a", "r">>

\* no period of performance, no expiration year
NoPeriod == << << >>, << >> >>

\* f"20{y}" if len(y) == 2 else y
ExpandYear(y) == IF Len(y) = 2 THEN <<"2", "0">> \o y ELSE y

\* '/NN': <<f"FY20{yr}", f"20{yr}">> when yr is a digit string
SingleYearDisplay(yr) ==
    IF IsDigit(yr) THEN << <<"F", "Y", "2", "0">> \o yr, <<"2", "0">> \o yr >> ELSE NoPeriod

\* 'NN/MM': <<f"FY{start}-FY{end}", end>> when both are digit strings
MultiYearDisplay(yrs) ==
    IF Len(yrs) = 2 /\ IsDigit(yrs[1]) /\ IsDigit(yrs[2])
    THEN << <<"F", "Y">> \o ExpandYear(yrs[1]) \o <<"-", "F", "Y">> \o ExpandYear(yrs[2]),
            ExpandYear(yrs[2]) >>
    ELSE NoPeriod

\* lines 34-51 of code/generate_summary.py: the year part of the catch-all layout
OIAPeriod(year_part) ==
    IF year_part = <<"/", "X">> THEN <<NoYear, NoYear>>
    ELSE IF Contains(year_part, <<"/">>)
         THEN IF StartsWith(year_part, <<"/">>) THEN SingleYearDisplay(Tail(year_part))
              ELSE MultiYearDisplay(Split(year_part, <<"/">>))
         ELSE NoPeriod

\* lines 77-92: 'NN/MM', and 'NN/X' as an open-ended period
StandardMultiYear(period_parts) ==
    IF Len(period_parts) # 2 THEN NoPeriod
    ELSE IF IsDigit(period_parts[1]) /\ IsDigit(period_parts[2]) THEN MultiYearDisplay(period_parts)
    ELSE IF period_parts[2] = <<"X">>
         THEN << <<"F", "Y">> \o ExpandYear(period_parts[1]) \o <<"-">> \o NoYear, NoYear >>
         ELSE NoPeriod

\* lines 65-92: the year part of the standard layout, already stripped
StandardPeriod(year_part) ==
    IF ~Contains(year_part, <<"/">>) THEN NoPeriod
    ELSE IF StartsWith(year_part, <<"/">>)
         THEN IF Tail(year_part) = <<"X">> THEN <<NoYear, NoYear>>
              ELSE SingleYearDisplay(Tail(year_part))
         ELSE StandardMultiYear(Split(year_part, <<"/">>))

\* lines 59-62: the first three pieces of the code, or the first two
StandardAccount(code_pieces) ==
    IF Len(code_pieces) >= 3 THEN Join(<<"-">>, SubSeq(code_pieces, 1, 3))
    ELSE IF Len(code_pieces) = 2 THEN Join(<<"-">>, code_pieces)
         ELSE << >>

Components(account_num, period) ==
    [account_num |-> account_num, period_of_perf |-> period[1], expiration_year |-> period[2]]

\* A plausible slip: the account number of the catch-all layout is cut like the
\* one of the standard layout
OIAComponentsTruncated(parts) ==
    IF parts = << >> THEN Components(<< >>, NoPeriod)
    ELSE Components(StandardAccount(Split(parts[1], <<"-">>)),
                    IF Len(parts) >= 2 THEN OIAPeriod(parts[2]) ELSE NoPeriod)

\* lines 26-51: parts = tafs_parts.strip().split()
OIAComponents(parts) ==
    IF parts = << >> THEN Components(<< >>, NoPeriod)
    ELSE Components(parts[1], IF Len(parts) >= 2 THEN OIAPeriod(parts[2]) ELSE NoPeriod)

\* lines 55-92: parts = tafs_parts.split(' ', 1), space the place of the first ' '
StandardComponents(tafs_parts, space) ==
    IF space = 0 THEN Components(StandardAccount(Split(tafs_parts, <<"-">>)), NoPeriod)
    ELSE Components(StandardAccount(Split(SubSeq(tafs_parts, 1, space - 1), <<"-">>)),
                    StandardPeriod(Strip(SubSeq(tafs_parts, space + 1, Len(tafs_parts)))))

\* line 20: tafs.split(' - ')[0] if ' - ' in tafs else tafs
TafsParts(tafs) ==
    IF Contains(tafs, <<" ", "-", " ">>) THEN Split(tafs, <<" ", "-", " ">>)[1] ELSE tafs

\* parse_tafs_components on a fund-symbol text
parse_tafs_components(tafs_text, agency_name) ==
    IF agency_name = OIA THEN OIAComponents(SplitWS(Strip(TafsParts(tafs_text))))
    ELSE StandardComponents(TafsParts(tafs_text), Find(TafsParts(tafs_text), <<" ">>))

\* create_year_summary: the records written for one year's table, none when the
\* function returns None before writing.  A table built only from workbooks
\* without LINENO column has no such column, and df['LINENO'] raises.
create_year_summary(master_file) ==
    LET df == read_csv(master_file)
        latest_month == find_latest_month(df)
        standard_agencies == SelectSeq(df.rows, LAMBDA r : r.Agency # OIA)
        line_2490 == SelectSeq(standard_agencies, LAMBDA r : r.LINENO = <<2490>>)
        line_2500 == SelectSeq(standard_agencies, LAMBDA r : r.LINENO = <<2500>>)
        merged == IF line_2490 # << >> /\ line_2500 # << >>
                  THEN Merge(line_2490, line_2500, {"Agency", "TAFS"})
                  ELSE << >>
        summary_data ==
            [i \in 1..Len(merged) |->
                SummaryRecord(merged[i][1].Agency,
                              IF merged[i][1].BUREAU = NaS THEN << >> ELSE merged[i][1].BUREAU,
                              merged[i][1].TAFS,
                              merged[i][1].amt[latest_month], merged[i][2].amt[latest_month])]
    IN IF latest_month = "" THEN [written |-> FALSE, raised |-> "", records |-> << >>]
       ELSE IF \A i \in 1..Len(df.rows) : df.rows[i].LINENO = NaN
            THEN [written |-> FALSE, raised |-> "KeyError", records |-> << >>]
       ELSE IF merged = << >> THEN [written |-> FALSE, raised |-> "", records |-> << >>]
       ELSE [written |-> TRUE, raised |-> "", records |-> sort_values(summary_data)]

\* generate_obligation_summary on the table of the 'TAFS detail' sheets
\* (parse_sf133_files.py).  A row of a standard agency holds its line number in
\* 'Line No', its fund symbol in Col_4 and its amount in the month column; a row
\* of the catch-all agency holds them in Col_9, Col_6 and '<month> AMT'.
\* month_order is only bound inside the standard-agency block, so a table without
\* standard-agency rows raises; a NaN fund symbol makes parse_tafs_components
\* raise, and the entry is skipped.
generate_obligation_summary(table) ==
    LET standard_agencies == SelectSeq(table, LAMBDA r : r.Agency # OIA)
        oia == SelectSeq(table, LAMBDA r : r.Agency = OIA)
        std_2490 == SelectSeq(standard_agencies, LAMBDA r : r.Line_No = <<2490>>)
        std_2500 == SelectSeq(standard_agencies, LAMBDA r : r.Line_No = <<2500>>)
        oia_2490 == SelectSeq(oia, LAMBDA r : r.Col_9 = <<2490>>)
        oia_2500 == SelectSeq(oia, LAMBDA r : r.Col_9 = <<2500>>)
        merged == IF standard_agencies # << >>
                  THEN Merge(std_2490, std_2500, {"Agency", "Col_4"}) ELSE << >>
        merged_oia == IF oia_2490 # << >> /\ oia_2500 # << >>
                      THEN Merge(oia_2490, oia_2500, {"Col_6"}) ELSE << >>
        std_kept == SelectSeq(merged, LAMBDA pr : pr[1].Col_4 # NaS)
        oia_kept == SelectSeq(merged_oia, LAMBDA pr : pr[1].Col_6 # NaS)
        summary_data ==
            [i \in 1..Len(std_kept) |->
                SummaryRecord(std_kept[i][1].Agency, << >>, std_kept[i][1].Col_4,
                              std_kept[i][1].Month, std_kept[i][2].Month)]
            \o [i \in 1..Len(oia_kept) |->
                SummaryRecord(OIA, << >>, oia_kept[i][1].Col_6,
                              oia_kept[i][1].Month_AMT, oia_kept[i][2].Month_AMT)]
    IN IF standard_agencies = << >> /\ oia # << >>
       THEN [written |-> FALSE, raised |-> "NameError", records |-> << >>]
       ELSE IF summary_data = << >>
            THEN [written |-> FALSE, raised |-> "", records |-> << >>]
            ELSE [written |-> TRUE, raised |-> "", records |-> sort_values(summary_data)]

\* ------------------------------------------------------------------------
\* parse_sf133_2012.py: workbooks that hold a single month
\* ------------------------------------------------------------------------

\* the months a workbook of 2012 can hold (lines 217, 244, 259)
expected_months == {"Nov", "Jul", "Aug"}

\* lines 103-119: the month column of the sheet, AMT_NOV before AMT_JUL before
\* AMT_AUG; month_name is "" when the sheet has none of them
Month2012(wb) ==
    IF "AMT_NOV" \in wb.month_cols THEN [month_name |-> "Nov", month_column |-> "AMT_NOV"]
    ELSE IF "AMT_JUL" \in wb.month_cols THEN [month_name |-> "Jul", month_column |-> "AMT_JUL"]
    ELSE IF "AMT_AUG" \in wb.month_cols THEN [month_name |-> "Aug", month_column |-> "AMT_AUG"]
    ELSE [month_name |-> "", month_column |-> ""]

\* what parse_sf133_2012_file returns: ret is "df" or "None"
Frame2012(ret, month_name, has_lineno, rows) ==
    [ret |-> ret, month |-> month_name, has_lineno |-> has_lineno, rows |-> rows]

\* line 144: grouping_cols of a row
GroupingCols2012(r) == <<r.BUREAU, r.OMB_ACCT, r.LINENO>>

\* lines 150-162: the row of one group, the month summed and every other column
\* the first value that is present
GroupRow2012(wb, g, agency_name, m) ==
    [BUREAU |-> g[1].BUREAU, OMB_ACCT |-> g[1].OMB_ACCT, LINENO |-> g[1].LINENO,
     TAFS |-> FirstOf([i \in 1..Len(g) |-> g[i].TAFS], NaS),
     FY1 |-> FirstOf([i \in 1..Len(g) |-> g[i].FY1], Na),
     FY2 |-> FirstOf([i \in 1..Len(g) |-> g[i].FY2], Na),
     ALLOC |-> FirstOf([i \in 1..Len(g) |-> g[i].ALLOC], Na),
     Agency |-> agency_name, Source_File |-> wb.name, Month |-> m.month_name,
     amount |-> <<SumCells([i \in 1..Len(g) |-> g[i].amt[m.month_column]])>>]

\* lines 165-169: a row of a sheet without LINENO column, returned as read
PlainRow2012(wb, r, agency_name, m) ==
    [BUREAU |-> r.BUREAU, OMB_ACCT |-> r.OMB_ACCT, LINENO |-> NaN,
     TAFS |-> r.TAFS, FY1 |-> r.FY1, FY2 |-> r.FY2, ALLOC |-> r.ALLOC,
     Agency |-> agency_name, Source_File |-> wb.name, Month |-> m.month_name,
     amount |-> r.amt[m.month_column]]

\* lines 133-163: the standard lines grouped by grouping_cols; groupby leaves out
\* the rows with a missing key and returns the groups in key order
GroupStandard2012(wb, agency_name, m) ==
    LET standard_lines == SelectSeq(wb.rows, StandardLine)
        keyed == SelectSeq(standard_lines, LAMBDA r : r.BUREAU # NaS /\ r.OMB_ACCT # NaS)
        keys == SortKeys({GroupingCols2012(keyed[i]) : i \in 1..Len(keyed)})
    IN [j \in 1..Len(keys) |->
          GroupRow2012(wb, SelectSeq(keyed, LAMBDA r : GroupingCols2012(r) = keys[j]),
                       agency_name, m)]

\* parse_sf133_2012_file (lines 74-173); the agency names of the model are
\* names of TARGET_AGENCIES, which lines 47-72 map to themselves
parse_sf133_2012_file(wb) ==
    LET m == Month2012(wb)
        agency_name == find_agency_from_raw_data(wb)
    IN IF wb.sheets # "ok" \/ Len(wb.rows) = 0 \/ m.month_name = ""
       THEN Frame2012("None", "", FALSE, << >>)
       ELSE IF wb.has_lineno
            THEN Frame2012("df", m.month_name, TRUE, GroupStandard2012(wb, agency_name, m))
            ELSE Frame2012("df", m.month_name, FALSE,
                           [i \in 1..Len(wb.rows) |-> PlainRow2012(wb, wb.rows[i], agency_name, m)])

\* line 242: the index of the pivot, without the TAFS_KEY built from it
PivotIndex(r) == <<r.BUREAU, r.OMB_ACCT, r.LINENO, r.Agency>>

\* i1 < i2 for two pivot indexes
IndexLess(i1, i2) ==
    \/ KeyLess(SubSeq(i1, 1, 3), SubSeq(i2, 1, 3))
    \/ SubSeq(i1, 1, 3) = SubSeq(i2, 1, 3) /\ AgencyRank(i1[4]) < AgencyRank(i2[4])

RECURSIVE SortIndex(_)
\* the pivot indexes of a set in ascending order
SortIndex(S) ==
    IF S = {} THEN << >>
    ELSE LET m == CHOOSE k \in S : \A o \in S \ {k} : IndexLess(k, o)
         IN <<m>> \o SortIndex(S \ {m})

\* lines 241-261: pivot_table keeps the rows whose index is complete and whose
\* amount is present, takes the first amount of every index and month, drops a
\* month column that is empty, and fillna(0) fills the cells left empty
month_pivot(combined) ==
    LET kept == SelectSeq(combined, LAMBDA r : r.BUREAU # NaS /\ r.OMB_ACCT # NaS
                                               /\ r.LINENO # NaN /\ r.amount # NaN)
        columns == {kept[i].Month : i \in 1..Len(kept)}
        index == SortIndex({PivotIndex(kept[i]) : i \in 1..Len(kept)})
    IN [months |-> columns,
        rows |-> [j \in 1..Len(index) |->
                    [BUREAU |-> index[j][1], OMB_ACCT |-> index[j][2], LINENO |-> index[j][3],
                     Agency |-> index[j][4], Source_File |-> "2012_Combined",
                     amt |-> [mo \in columns |->
                                LET cells == SelectSeq(kept, LAMBDA r : PivotIndex(r) = index[j]
                                                                        /\ r.Month = mo)
                                IN IF cells = << >> THEN <<0>> ELSE cells[1].amount]]]]

\* what parse_all_sf133_2012_data leaves: the master table when written, the
\* exception that ended the run ("" when none)
Master2012(exists, raised, table) ==
    [exists |-> exists, raised |-> raised, months |-> table.months, rows |-> table.rows]

\* parse_all_sf133_2012_data (lines 175-295) on the frames of the files: line 238
\* reads the LINENO column of the combined table, and pivot_table raises for a
\* month of its values list that is no column of the combined table
parse_all_sf133_2012_data(frames) ==
    LET all_data == SelectSeq(frames, LAMBDA f : f.ret = "df" /\ Len(f.rows) > 0)
        combined_df == Flatten([i \in 1..Len(all_data) |-> all_data[i].rows])
    IN IF all_data = << >> THEN Master2012(FALSE, "", NoFrame)
       ELSE IF \A i \in 1..Len(all_data) : ~all_data[i].has_lineno
            THEN Master2012(FALSE, "KeyError", NoFrame)
       ELSE IF expected_months \ {all_data[i].month : i \in 1..Len(all_data)} # {}
            THEN Master2012(FALSE, "KeyError", NoFrame)
       ELSE Master2012(TRUE, "", month_pivot(combined_df))

\* ------------------------------------------------------------------------
\* parse_sf133_files.py: forward fill of the descriptive columns
\* ------------------------------------------------------------------------

\* str.match(r'^\d{4}(\.\d)?$') on the text of a cell: four digits, optionally
\* '.' and one digit, optionally followed by a final newline; the text 'nan' of
\* a missing cell does not match
MatchesLineNumber(cell) ==
    LET s == IF cell # NaS /\ Len(cell) > 0 /\ cell[Len(cell)] = "\n"
             THEN SubSeq(cell, 1, Len(cell) - 1) ELSE cell
    IN /\ cell # NaS
       /\ \/ Len(s) = 4 /\ IsDigit(s)
          \/ Len(s) = 6 /\ IsDigit(SubSeq(s, 1, 4)) /\ s[5] = "." /\ IsDigit(<<s[6]>>)

RECURSIVE ffill(_, _)
\* Series.ffill: a missing cell takes the last value before it; last is the
\* value carried so far
ffill(cells, last) ==
    IF cells = << >> THEN << >>
    ELSE IF Head(cells) = NaS THEN <<last>> \o ffill(Tail(cells), last)
    ELSE <<Head(cells)>> \o ffill(Tail(cells), Head(cells))

\* A plausible slip: the whole column is forward filled
fill_column_unmasked(column) == ffill(column, NaS)

\* lines 173-174 and 183-184: df.loc[~mask, col] = df.loc[~mask, col].ffill()
fill_column(column) ==
    LET unmasked == SelectSeq([i \in 1..Len(column) |-> i],
                              LAMBDA i : ~MatchesLineNumber(column[i]))
        filled == ffill([k \in 1..Len(unmasked) |-> column[unmasked[k]]], NaS)
    IN [i \in 1..Len(column) |->
          IF MatchesLineNumber(column[i]) THEN column[i]
          ELSE filled[CHOOSE k \in 1..Len(unmasked) : unmasked[k] = i]]

\* ------------------------------------------------------------------------
\* sf133_processor.py: SF133Processor.process_new_month
\* ------------------------------------------------------------------------

\* the tests of run_data_integrity_tests in the order they run (lines 141-158)
IntegrityTestNames ==
    <<"data_structure", "agency_coverage", "monthly_totals_consistency",
      "account_consistency", "data_completeness">>

\* A plausible slip: a failed completeness test does not fail the tests
run_data_integrity_tests_without_completeness(failed_test, raised) ==
    failed_test \in {0, 5} /\ ~raised

\* run_data_integrity_tests (lines 128-166): failed_test is the number of the
\* first test that returned False (0 when none did), raised tells that
\* read_csv or a test raised
run_data_integrity_tests(failed_test, raised) == failed_test = 0 /\ ~raised

\* the record of a stage that has run
Stage(name, ok) == [stage |-> name, ok |-> ok]

\* update_sf133_data.py, run_comprehensive_tests (lines 50-83): the integrity
\* tests decide, the cross-year validation is informational, an exception
\* yields False
run_comprehensive_tests(integrity_passed, raised) == integrity_passed /\ ~raised

\* the twelve month keys, the values of RAW_DATA_COLUMN_MAPPING
MonthNames ==
    {RAW_DATA_COLUMN_MAPPING[c] : c \in DOMAIN RAW_DATA_COLUMN_MAPPING}

\* the keys of RAW_DATA_COLUMN_MAPPING in the order of the dictionary (lines 43-63)
MappingOrder ==
    <<"AMT_OCT", "AMT_NOV", "AMT_DEC", "AMT_JAN", "AMT_FEB", "AMT_MAR",
      "AMT_APR", "AMT_MAY", "AMT_JUN", "AMT_JUL", "AMT_AUG", "AMT_SEP",
      "AMT1", "AMT2", "AMT3", "AMT4">>

\* lines 175-178: the entries of the mapping whose raw column the sheet has
columns_to_rename(columns) ==
    {c \in DOMAIN RAW_DATA_COLUMN_MAPPING : \E i \in 1..Len(columns) : columns[i] = c}

\* line 178: the month key of every mapped column the sheet has, in the order
\* of the mapping
available_month_columns(columns) ==
    LET present == SelectSeq(MappingOrder, LAMBDA c : c \in columns_to_rename(columns))
    IN [k \in 1..Len(present) |-> RAW_DATA_COLUMN_MAPPING[present[k]]]

\* line 181, df.rename(columns=columns_to_rename): every column keeps its
\* place and takes the name the mapping gives it; rename does not merge or
\* reject columns that receive the same name
rename(columns) ==
    [i \in 1..Len(columns) |->
        IF columns[i] \in columns_to_rename(columns)
        THEN RAW_DATA_COLUMN_MAPPING[columns[i]] ELSE columns[i]]

\* ------------------------------------------------------------------------
\* validate_years.py: main
\* ------------------------------------------------------------------------

\* a summary file of site/data: kind is the pattern of its name, parts is what
\* stands between the prefix and the extension, split at '_'; a part of digits
\* is a number, any other part a text
SummaryFile(kind, parts) == [kind |-> kind, parts |-> parts]

\* all_agencies_obligation_summary_<y>.csv, all_agencies_summary_<y>.json,
\* all_agencies_monthly_summary_<y>_<month>.csv
ObligationCsv(y) == SummaryFile("obligation_summary csv", <<y>>)

SummaryJson(y) == SummaryFile("summary json", <<y>>)

MonthlyCsv(y, month) == SummaryFile("monthly_summary csv", <<y, month>>)

\* lines 117-130 and 156-158: the year a file name yields, << >> when the text
\* taken from the name is not made of digits; for the year files the text is
\* everything between prefix and extension, for a monthly file its first part
year_of(file) ==
    IF file.kind = "monthly_summary csv"
    THEN (IF Len(file.parts) >= 1 /\ file.parts[1] \in Nat THEN <<file.parts[1]>> ELSE << >>)
    ELSE (IF Len(file.parts) = 1 /\ file.parts[1] \in Nat THEN <<file.parts[1]>> ELSE << >>)

\* lines 113-130: the years that have any summary file
all_data_years(files) == {year_of(f)[1] : f \in {g \in files : year_of(g) # << >>}}

\* A plausible slip: every year with data is removed
years_to_remove_every_year(data_years, passing_both) == data_years

\* line 133
years_to_remove(data_years, passing_both) == data_years \ passing_both

\* lines 139-162: the files the cleanup unlinks, the two year files by their
\* exact name and the monthly files by the year of their name
unlinked(files, remove) ==
    {f \in files :
        \/ \E y \in remove : f \in {ObligationCsv(y), SummaryJson(y)}
        \/ f.kind = "monthly_summary csv" /\ year_of(f) # << >> /\ year_of(f)[1] \in remove}

RECURSIVE sorted(_)
\* sorted(list(S)) for a set of years
sorted(S) ==
    IF S = {} THEN << >>
    ELSE LET m == CHOOSE y \in S : \A o \in S : y <= o
         IN <<m>> \o sorted(S \ {m})

\* run_tests.py, lines 67-76: the years test_year_data_completeness and
\* test_csv_structure can pass are those of the obligation summary files
available_years(files) ==
    {year_of(f)[1] : f \in {g \in files : g.kind = "obligation_summary csv" /\ year_of(g) # << >>}}

\* ------------------------------------------------------------------------
\* Inputs: workbooks, directories, detail tables
\* ------------------------------------------------------------------------

\* most workbooks of a fiscal-year directory
MaxFiles == 2

\* most rows of a sheet
MaxRows == 2

\* the sequences over S of length 1 to n
SeqsUpTo(S, n) == UNION {[1..k -> S] : k \in 1..n}

\* "73-0100 /X - Salaries and Expenses"
TafsNoYear ==
    TafsText([code |-> <<"7", "3", "-", "0", "1", "0", "0">>,
              period |-> [kind |-> "noyear", nn |-> << >>, mm |-> <<"X">>],
              desc |-> DescSalaries])

\* "17-1804 /20 - Operation and Maintenance, Navy"
TafsSingle ==
    TafsText([code |-> <<"1", "7", "-", "1", "8", "0", "4">>,
              period |-> [kind |-> "single", nn |-> << >>, mm |-> <<"2", "0">>],
              desc |-> DescNavy])

\* "14-91-0400 12/13"
TafsMulti ==
    TafsText([code |-> <<"1", "4", "-", "9", "1", "-", "0", "4", "0", "0">>,
              period |-> [kind |-> "multi", nn |-> <<"1", "2">>, mm |-> <<"1", "3">>],
              desc |-> << >>])

\* "14-91-0400 /X" and "14-92-0400 /X": two fund symbols that differ in the
\* allocation code only
TafsAlloc91 == <<"1", "4", "-", "9", "1", "-", "0", "4", "0", "0", " ", "/", "X">>

TafsAlloc92 == <<"1", "4", "-", "9", "2", "-", "0", "4", "0", "0", " ", "/", "X">>

BureauNavy == <<"N", "a", "v", "y">>

OmbAcct == <<"0", "0", "7", "-", "1", "0", "-", "1", "8", "0", "4">>

MonthlyColumns ==
    {"AMT_OCT", "AMT_NOV", "AMT_DEC", "AMT_JAN", "AMT_FEB", "AMT_MAR",
     "AMT_APR", "AMT_MAY", "AMT_JUN", "AMT_JUL", "AMT_AUG", "AMT_SEP"}

\* a row of the Raw Data sheet holding the same amount in every month column
RawRow(bureau, lineno, tafs_text, fy1, fy2, alloc, tracct, amount) ==
    [BUREAU |-> bureau, OMB_ACCT |-> OmbAcct, LINENO |-> lineno, TAFS |-> tafs_text,
     FY1 |-> fy1, FY2 |-> fy2, ALLOC |-> alloc, TRACCT |-> tracct,
     TRAG |-> IF tracct = NaN THEN NaN ELSE <<14>>,
     amt |-> [c \in MonthlyColumns |-> amount]]

\* "Amounts in dollars", "(In thousands)", "In Thousands of Dollars",
\* "SF 133 Report on Budget Execution"
HeaderDollars == <<"A", "m", "o", "u", "n", "t", "s", " ", "i", "n", " ", "d", "o", "l", "l", "a", "r", "s">>

HeaderThousands == <<"(", "I", "n", " ", "t", "h", "o", "u", "s", "a", "n", "d", "s", ")">>

HeaderThousandsOfDollars == <<"I", "n", " ", "T", "h", "o", "u", "s", "a", "n", "d", "s", " ", "o", "f", " ", "D", "o", "l", "l", "a", "r", "s">>

HeaderNeither == <<"S", "F", " ", "1", "3", "3", " ", "R", "e", "p", "o", "r", "t", " ", "o", "n", " ", "B", "u", "d", "g", "e", "t", " ", "E", "x", "e", "c", "u", "t", "i", "o", "n">>

Readable(text) == [readable |-> TRUE, cells |-> <<text>>]

Unreadable == [readable |-> FALSE, cells |-> << >>]

Workbook(agency, detail, has_lineno, has_fy, has_alloc, has_tr, month_cols, rows) ==
    [name |-> "", sheets |-> "ok", detail |-> detail, AGENCY |-> agency,
     has_lineno |-> has_lineno, has_fy |-> has_fy, has_alloc |-> has_alloc,
     has_tr |-> has_tr, month_cols |-> month_cols,
     rows |-> [i \in 1..Len(rows) |->
                 [rows[i] EXCEPT !.amt = [c \in month_cols |-> rows[i].amt[c]],
                                 !.LINENO = IF has_lineno THEN @ ELSE NaN]]]

Education == "Department of Education"

\* Rows of the workbooks of a directory of several files: lines 2490 and 2500 of
\* one account, a line 2490 whose FY2 cell ('21') contradicts the fund symbol (/X),
\* a line 2500 of another account
RowUnobligated == RawRow(BureauNavy, <<2490>>, TafsNoYear, Na, Txt(<<"X">>), Na, NaN, <<120000>>)

RowAuthority == RawRow(BureauNavy, <<2500>>, TafsNoYear, Na, Txt(<<"X">>), Na, NaN, <<300000>>)

RowMismatch == RawRow(BureauNavy, <<2490>>, TafsNoYear, Na, Txt(<<"2", "1">>), Na, NaN, <<120000>>)

RowOtherAccount == RawRow(BureauNavy, <<2500>>, TafsSingle, Na, Txt(<<"2", "0">>), Na, NaN, <<300000>>)

\* line 2490 of the first account, received through transfer accounts 1 and 2
RowTransfer(tracct) == RawRow(BureauNavy, <<2490>>, TafsNoYear, Na, Txt(<<"X">>), Na, <<tracct>>, <<120000>>)

DirRows ==
    {RowUnobligated, RowAuthority, RowMismatch, RowOtherAccount, RowTransfer(1), RowTransfer(2)}

\* Workbooks that yield no table: no 'Raw Data' sheet, an unreadable file, an
\* empty sheet
EmptyWorkbooks ==
    { [Workbook(Education, Readable(HeaderDollars), TRUE, FALSE, FALSE, FALSE, {"AMT_SEP"}, << >>)
          EXCEPT !.sheets = sh] : sh \in {"ok", "no Raw Data", "unreadable"} }

\* the workbooks of a directory of several files: the sheet has the TRACCT and
\* TRAG columns when a row holds a transfer account; one workbook is of the layout
\* without LINENO column, one has no column for October
DirWorkbooks(max_rows) ==
    { Workbook(Education, Readable(HeaderDollars), TRUE, TRUE, FALSE,
               \E i \in 1..Len(rows) : rows[i].TRACCT # NaN, MonthlyColumns, rows) :
        rows \in SeqsUpTo(DirRows, max_rows) }
    \cup { Workbook(Education, Readable(HeaderDollars), FALSE, TRUE, FALSE, FALSE, MonthlyColumns,
                    <<RowUnobligated>>) }
    \cup { Workbook(Education, Readable(HeaderDollars), TRUE, TRUE, FALSE, FALSE,
                    MonthlyColumns \ {"AMT_OCT"}, <<RowUnobligated, RowAuthority>>) }
    \cup EmptyWorkbooks

\* Rows for the cross-validation: a standard and a non-standard line, two fund
\* symbols, authoritative cells that are missing, numbers or text
ValidationRows ==
    { RawRow(BureauNavy, lineno, tafs_text, fy1, fy2, alloc, NaN, <<1234>>) :
        lineno \in {<<2490>>, <<500>>}, tafs_text \in {TafsNoYear, TafsMulti},
        fy1 \in {Na, Num(12), Txt(<<"1", "3">>)}, fy2 \in {Num(13), Txt(<<"X">>)},
        alloc \in {Na, Num(91)} }

\* Rows for the aggregation: the bureau or the line number may be missing, the fund symbols differ
\* in the allocation code only, the amounts are 100, 50 or missing
GroupingRows(has_tr) ==
    { RawRow(bureau, lineno, tafs_text, Na, Na, Na, tracct, amount) :
        bureau \in {BureauNavy, NaS}, lineno \in {<<2490>>, NaN},
        tafs_text \in {TafsAlloc91, TafsAlloc92},
        tracct \in (IF has_tr THEN {<<1>>, <<2>>, NaN} ELSE {NaN}),
        amount \in {<<100>>, <<50>>, NaN} }

\* Rows for the units: numeric identifier columns next to the amount
UnitRows ==
    { RawRow(BureauNavy, <<2490>>, TafsMulti, Num(12), Num(13), Num(91), <<1>>, amount) :
        amount \in {<<1234>>, <<0>>, NaN} }

\* Rows for the summary: lines 2490 and 2500 of two accounts
SummaryRows ==
    { RawRow(BureauNavy, lineno, tafs_text, Na, Na, Na, NaN, amount) :
        lineno \in {<<2490>>, <<2500>>}, tafs_text \in {TafsNoYear, TafsSingle},
        amount \in {<<0>>, <<50>>, <<-200>>, <<1>>, <<3>>} }

\* the workbooks parse_sf133_raw_data is applied to on its own
FileWorkbooks(max_rows) ==
    { Workbook(Education, Readable(HeaderDollars), TRUE, TRUE, TRUE, FALSE, {"AMT_SEP"}, rows) :
        rows \in SeqsUpTo(ValidationRows, max_rows) }
    \cup UNION { { Workbook(Education, Readable(HeaderDollars), TRUE, FALSE, FALSE, has_tr, {"AMT_SEP"}, rows) :
                     rows \in SeqsUpTo(GroupingRows(has_tr), max_rows) } : has_tr \in BOOLEAN }
    \cup { Workbook(Education, detail, has_lineno, TRUE, TRUE, TRUE, {"AMT_SEP"}, rows) :
        detail \in {Readable(HeaderDollars), Readable(HeaderThousands),
                    Readable(HeaderThousandsOfDollars), Readable(HeaderNeither), Unreadable},
        has_lineno \in BOOLEAN, rows \in SeqsUpTo(UnitRows, max_rows) }
    \cup EmptyWorkbooks

\* single workbooks of one agency holding lines 2490 and 2500
SummaryWorkbooks(max_rows) ==
    { Workbook(agency, Readable(HeaderDollars), TRUE, FALSE, FALSE, FALSE, {"AMT_AUG"}, rows) :
        agency \in {Education, OIA}, rows \in SeqsUpTo(SummaryRows, max_rows) }

\* the names of the workbooks of a directory
FileName(i) ==
    CASE i = 1 -> "education.xlsx" [] i = 2 -> "interior.xlsx"
      [] i = 3 -> "treasury.xlsx" [] OTHER -> "2668331098.xlsx"

\* the directories of a fiscal year: a single workbook of lines 2490 and 2500, or
\* up to max_files workbooks
Directories(max_files, max_rows) ==
    { <<[wb EXCEPT !.name = FileName(1)]>> : wb \in SummaryWorkbooks(max_rows) }
    \cup UNION { { [i \in 1..n |-> [base[i] EXCEPT !.name = FileName(i)]] :
                     base \in [1..n -> DirWorkbooks(max_rows)] } : n \in 0..max_files }

\* line 2490 of an account held under allocation code 91
RowAllocated == RawRow(BureauNavy, <<2490>>, TafsAlloc91, Na, Txt(<<"X">>), Num(91), NaN, <<50>>)

\* Rows of the workbooks of 2012: on line 2490 two rows that differ in the
\* allocation code, on line 2500 two rows that differ in the period
Rows2012 == {RowUnobligated, RowAllocated, RowAuthority, RowOtherAccount}

\* a workbook of 2012 with the given month columns
Workbook2012(agency, has_lineno, month_cols, rows) ==
    Workbook(agency, Readable(HeaderDollars), has_lineno, TRUE, TRUE, FALSE, month_cols, rows)

\* the file of one month of an agency, when there is one
MonthFiles(month_column, max_rows) ==
    {<< >>} \cup { <<Workbook2012(Education, TRUE, {month_column}, rows)>> :
                     rows \in SeqsUpTo(Rows2012, max_rows) }

\* Workbooks of 2012 of other kinds: a second agency, a sheet with two month
\* columns, with no month column of 2012, without LINENO column, with rows
\* without bureau or with a line number that is not standard, an unreadable file
OtherWorkbooks2012 ==
    { Workbook2012(OIA, TRUE, {"AMT_AUG"}, <<RowUnobligated>>),
      Workbook2012(Education, TRUE, {"AMT_NOV", "AMT_JUL"}, <<RowUnobligated>>),
      Workbook2012(Education, TRUE, {"AMT_OCT"}, <<RowUnobligated>>),
      Workbook2012(Education, FALSE, {"AMT_NOV"}, <<RowUnobligated>>),
      Workbook2012(Education, TRUE, {"AMT_NOV"},
                   <<RawRow(NaS, <<2490>>, TafsNoYear, Na, Txt(<<"X">>), Na, NaN, <<7>>),
                     RawRow(BureauNavy, <<500>>, TafsNoYear, Na, Txt(<<"X">>), Na, NaN, <<7>>)>>),
      Workbook2012(Education, TRUE, {"AMT_NOV"},
                   <<RawRow(BureauNavy, <<2490>>, TafsNoYear, Na, Txt(<<"X">>), Na, NaN, NaN)>>),
      [Workbook2012(Education, TRUE, {"AMT_JUL"}, <<RowUnobligated>>) EXCEPT !.sheets = "unreadable"],
      Workbook2012(Education, TRUE, {"AMT_JUL"}, <<RowAuthority>>),
      Workbook2012(Education, TRUE, {"AMT_AUG"}, <<RowUnobligated>>) }

\* the workbooks of a sequence under the file names of the directory
Named(books) == [i \in 1..Len(books) |-> [books[i] EXCEPT !.name = FileName(i)]]

\* the directories of 2012: at most one file of an agency for each of the
\* three months, or three workbooks of the other kinds
Directories2012(max_rows) ==
    { Named(nov \o jul \o aug) :
        nov \in MonthFiles("AMT_NOV", max_rows), jul \in MonthFiles("AMT_JUL", max_rows),
        aug \in MonthFiles("AMT_AUG", max_rows) }
    \cup { Named(books) : books \in [1..3 -> OtherWorkbooks2012] }

\* a row of the table of the 'TAFS detail' sheets
DetailRow(agency, line, tafs_text, amount) ==
    IF agency = OIA
    THEN [Agency |-> agency, Line_No |-> NaN, Col_4 |-> NaS, Month |-> NaN,
          Col_9 |-> line, Col_6 |-> tafs_text, Month_AMT |-> amount]
    ELSE [Agency |-> agency, Line_No |-> line, Col_4 |-> tafs_text, Month |-> amount,
          Col_9 |-> NaN, Col_6 |-> NaS, Month_AMT |-> NaN]

DetailRows ==
    { DetailRow(agency, line, tafs_text, amount) :
        agency \in {Education, OIA}, line \in {<<2490>>, <<2500>>},
        tafs_text \in {TafsNoYear, TafsSingle, NaS},
        amount \in {<<0>>, <<50>>, <<-200>>, <<1>>, <<3>>, NaN} }

DetailTables(max_rows) == SeqsUpTo(DetailRows, max_rows)

\* ------------------------------------------------------------------------
\* The programs as a state machine
\* ------------------------------------------------------------------------

VARIABLES pc, sym, tafs, derived, run, excel_files, outcomes, master, site_data,
          success, exit_code, summary, detail_master, obligation_summary

vars == <<pc, sym, tafs, derived, run, excel_files, outcomes, master, site_data,
          success, exit_code, summary, detail_master, obligation_summary>>

\* --year and the calendar year of the run: a completed year, the baseline year
\* while current, a current year after the baseline year
Runs ==
    { [year |-> 2024, current_year |-> 2025], [year |-> 2025, current_year |-> 2025],
      [year |-> 2026, current_year |-> 2026] }

FiscalYears == {r.year : r \in Runs}

NoRun == [year |-> 0, current_year |-> 0]

NoSummary == [written |-> FALSE, raised |-> "", records |-> << >>]

NoSymbol == [code |-> << >>, period |-> [kind |-> "absent", nn |-> << >>, mm |-> << >>], desc |-> << >>]

\* the table an earlier run of the baseline year left in site/data
BaselineTable ==
    CombinedTable(<<parse_sf133_raw_data(
        [Workbook(Education, Readable(HeaderDollars), TRUE, TRUE, FALSE, FALSE, MonthlyColumns,
                  <<RowUnobligated, RowAuthority>>) EXCEPT !.name = FileName(1)]).df>>)

\* nothing has run
Init ==
    /\ pc = "start"
    /\ sym = NoSymbol /\ tafs = << >> /\ derived = [fy |-> << >>, alloc |-> << >>]
    /\ run = NoRun
    /\ excel_files = << >> /\ outcomes = << >> /\ master = NoFile
    /\ site_data = [y \in FiscalYears |-> NoFile]
    /\ success = << >> /\ exit_code = << >>
    /\ summary = NoSummary
    /\ detail_master = << >> /\ obligation_summary = NoSummary

\* process_complete_year, step 1: download_year_data succeeds or fails
Download ==
    /\ pc = "start"
    /\ \E ok \in BOOLEAN :
          IF ok THEN pc' = "downloaded" /\ success' = success
                ELSE pc' = "processed" /\ success' = <<FALSE>>
    /\ UNCHANGED <<sym, tafs, derived, run, excel_files, outcomes, master, site_data,
                   exit_code, summary, detail_master, obligation_summary>>

\* A plausible slip: the loop over the files ends at the first file that yields
\* no table
AllDataUntilSkipped(outs) ==
    LET skipped == {i \in 1..Len(outs) : ~(outs[i].ret = "df" /\ Len(outs[i].df.rows) > 0)}
        n == IF skipped = {} THEN Len(outs)
             ELSE (CHOOSE i \in skipped : \A j \in skipped : i <= j) - 1
    IN [i \in 1..n |-> outs[i].df]

\* the frames parse_all_sf133_raw_data appends to all_data
AllData(outs) ==
    LET kept == SelectSeq(outs, LAMBDA o : o.ret = "df" /\ Len(o.df.rows) > 0) IN
    [i \in 1..Len(kept) |-> kept[i].df]

\* parse_all_sf133_raw_data on the directory of the year
ParseAll ==
    /\ pc = "downloaded"
    /\ \E dir \in Directories(MaxFiles, MaxRows) :
          /\ excel_files' = dir
          /\ outcomes' = [i \in 1..Len(dir) |-> parse_sf133_raw_data(dir[i])]
          /\ master' = IF AllData(outcomes') = << >> THEN NoFile
                       ELSE File(CombinedTable(AllData(outcomes')))
    /\ pc' = "parsed"
    /\ UNCHANGED <<sym, tafs, derived, run, site_data, success, exit_code, summary,
                   detail_master, obligation_summary>>

\* process_year_data(year) after the parse: the table is moved to
\* sf133_<year>_master.csv and analysed against the baseline table as it is found
\* in site/data (left there by an earlier run, or missing); for the baseline year
\* that file is the table just moved.  process_complete_year returns whether a
\* path came back.
ProcessYear ==
    /\ pc = "parsed"
    /\ \E r \in Runs, found \in {NoFile, File(BaselineTable)} :
          /\ run' = r
          /\ IF master.exists
             THEN /\ site_data' = [y \in FiscalYears |->
                                      IF y = r.year THEN master
                                      ELSE IF y = BaselineYear THEN found ELSE site_data[y]]
                  /\ master' = NoFile
                  /\ success' = <<analyze_year_data(site_data'[r.year],
                                                    r.year >= r.current_year,
                                                    site_data'[BaselineYear])>>
             ELSE /\ success' = <<FALSE>>
                  /\ UNCHANGED <<site_data, master>>
    /\ pc' = "processed"
    /\ UNCHANGED <<sym, tafs, derived, excel_files, outcomes, exit_code, summary,
                   detail_master, obligation_summary>>

\* main: sys.exit(0 if success else 1)
Exit ==
    /\ pc = "processed"
    /\ exit_code' = IF success = <<TRUE>> THEN <<0>> ELSE <<1>>
    /\ pc' = "exited"
    /\ UNCHANGED <<sym, tafs, derived, run, excel_files, outcomes, master, site_data,
                   success, summary, detail_master, obligation_summary>>

\* create_year_summaries.py --year <year>, run once the year's table is on disk
CreateYearSummary ==
    /\ pc = "exited"
    /\ run # NoRun
    /\ site_data[run.year].exists
    /\ summary' = create_year_summary(site_data[run.year])
    /\ pc' = "summarized"
    /\ UNCHANGED <<sym, tafs, derived, run, excel_files, outcomes, master, site_data,
                   success, exit_code, detail_master, obligation_summary>>

\* generate_summary.py on the table of the 'TAFS detail' sheets
GenerateObligationSummary ==
    /\ pc = "start"
    /\ \E table \in DetailTables(MaxRows) :
          /\ detail_master' = table
          /\ obligation_summary' = generate_obligation_summary(table)
    /\ pc' = "summarized"
    /\ UNCHANGED <<sym, tafs, derived, run, excel_files, outcomes, master, site_data,
                   success, exit_code, summary>>

Next ==
    \/ Download
    \/ ParseAll
    \/ ProcessYear
    \/ Exit
    \/ CreateYearSummary
    \/ GenerateObligationSummary

Spec == Init /\ [][Next]_vars

\* one workbook is about to be parsed on its own
InitFile ==
    /\ pc = "file"
    /\ sym = NoSymbol /\ tafs = << >> /\ derived = [fy |-> << >>, alloc |-> << >>]
    /\ run = NoRun
    /\ excel_files = << >> /\ outcomes = << >> /\ master = NoFile
    /\ site_data = [y \in FiscalYears |-> NoFile]
    /\ success = << >> /\ exit_code = << >>
    /\ summary = NoSummary
    /\ detail_master = << >> /\ obligation_summary = NoSummary

\* parse_sf133_raw_data(file_path)
ParseWorkbook ==
    /\ pc = "file"
    /\ \E wb \in FileWorkbooks(MaxRows) :
          /\ excel_files' = <<[wb EXCEPT !.name = FileName(1)]>>
          /\ outcomes' = <<parse_sf133_raw_data([wb EXCEPT !.name = FileName(1)])>>
    /\ pc' = "parsed file"
    /\ UNCHANGED <<sym, tafs, derived, run, master, site_data, success, exit_code,
                   summary, detail_master, obligation_summary>>

NextFile == ParseWorkbook

SpecFile == InitFile /\ [][NextFile]_vars

\* A fund symbol is drawn; nothing has been derived from it yet
InitTafs ==
    /\ pc = "tafs"
    /\ sym \in FundSymbols
    /\ tafs = TafsText(sym)
    /\ derived = [fy |-> << >>, alloc |-> << >>]
    /\ run = NoRun
    /\ excel_files = << >> /\ outcomes = << >> /\ master = NoFile
    /\ site_data = [y \in FiscalYears |-> NoFile]
    /\ success = << >> /\ exit_code = << >>
    /\ summary = NoSummary
    /\ detail_master = << >> /\ obligation_summary = NoSummary

\* df['DERIVED_FY1'], df['DERIVED_FY2'], df['DERIVED_ALLOC'] of one row
DeriveFromTafs ==
    /\ pc = "tafs"
    /\ derived' = [fy |-> parse_tafs_to_match_fy1_fy2(tafs),
                   alloc |-> derive_alloc_from_tafs(tafs)]
    /\ pc' = "derived"
    /\ UNCHANGED <<sym, tafs, run, excel_files, outcomes, master, site_data,
                   success, exit_code, summary, detail_master, obligation_summary>>

\* parse_tafs_components(row TAFS, row Agency) of one merged row
ParseTafsComponents ==
    /\ pc = "tafs"
    /\ \E agency_name \in {Education, OIA} :
          derived' = [agency |-> agency_name] @@ parse_tafs_components(tafs, agency_name)
    /\ pc' = "components"
    /\ UNCHANGED <<sym, tafs, run, excel_files, outcomes, master, site_data,
                   success, exit_code, summary, detail_master, obligation_summary>>

NextTafs == DeriveFromTafs \/ ParseTafsComponents

SpecTafs == InitTafs /\ [][NextTafs]_vars

\* Field values of the FY1, FY2 and ALLOC columns as text: a base value, written
\* with leading zeros and with a '.0' suffix when it is a digit string
FieldBases ==
    { <<"6">>, <<"7">>, <<"0">>, <<"1", "2">>, <<"1", "3">>, <<"2", "0">>, <<"9", "9">>,
      <<"1", "2", "3">>, <<"2", "0", "1", "2">>, <<"2", "0", "2", "5">>,
      <<"X">>, <<"x">>, << >>, <<"n", "a", "n">>, <<" ", "n", "a", "n">>, <<"A", "B">>,
      <<"1", ".", "5">>, <<".", "5">>, <<"1", "2", ".", "5">> }

FieldValues ==
    { [base |-> b, zeros |-> z, suffix |-> x] :
        b \in {d \in FieldBases : IsDigit(d)}, z \in {<< >>, <<"0">>, <<"0", "0">>},
        x \in {<< >>, <<".", "0">>} }
    \cup { [base |-> b, zeros |-> << >>, suffix |-> << >>] : b \in FieldBases }

\* A field value is drawn; it has not been normalized yet
InitField ==
    /\ pc = "field"
    /\ sym \in FieldValues
    /\ tafs = sym.zeros \o sym.base \o sym.suffix
    /\ derived = [once |-> << >>, twice |-> << >>]
    /\ run = NoRun
    /\ excel_files = << >> /\ outcomes = << >> /\ master = NoFile
    /\ site_data = [y \in FiscalYears |-> NoFile]
    /\ success = << >> /\ exit_code = << >>
    /\ summary = NoSummary
    /\ detail_master = << >> /\ obligation_summary = NoSummary

\* df['FY1'].apply(normalize_fy_field) on the value, and on its result again
NormalizeField ==
    /\ pc = "field"
    /\ derived' = [once |-> normalize_fy_field(Txt(tafs), "object"),
                   twice |-> normalize_fy_field(Txt(normalize_fy_field(Txt(tafs), "object")), "object")]
    /\ pc' = "normalized"
    /\ UNCHANGED <<sym, tafs, run, excel_files, outcomes, master, site_data,
                   success, exit_code, summary, detail_master, obligation_summary>>

NextField == NormalizeField

SpecField == InitField /\ [][NextField]_vars

\* the directory of 2012 has not been read
Init2012 ==
    /\ pc = "2012"
    /\ sym = NoSymbol /\ tafs = << >> /\ derived = [fy |-> << >>, alloc |-> << >>]
    /\ run = NoRun
    /\ excel_files = << >> /\ outcomes = << >> /\ master = NoFile
    /\ site_data = [y \in FiscalYears |-> NoFile]
    /\ success = << >> /\ exit_code = << >>
    /\ summary = NoSummary
    /\ detail_master = << >> /\ obligation_summary = NoSummary

\* parse_all_sf133_2012_data(source_dir): parse_sf133_2012_file on every file,
\* then the pivot of the frames
ParseAll2012 ==
    /\ pc = "2012"
    /\ \E dir \in Directories2012(MaxRows) :
          /\ excel_files' = dir
          /\ outcomes' = [i \in 1..Len(dir) |-> parse_sf133_2012_file(dir[i])]
          /\ master' = parse_all_sf133_2012_data(outcomes')
    /\ pc' = "parsed 2012"
    /\ UNCHANGED <<sym, tafs, derived, run, site_data, success, exit_code, summary,
                   detail_master, obligation_summary>>

Next2012 == ParseAll2012

Spec2012 == Init2012 /\ [][Next2012]_vars

\* nothing has run; the master table of the directory does not exist
InitRerun ==
    /\ pc = "rerun"
    /\ sym = NoSymbol /\ tafs = << >> /\ derived = [fy |-> << >>, alloc |-> << >>]
    /\ run = NoRun
    /\ excel_files = << >> /\ outcomes = << >> /\ master = NoFile
    /\ site_data = [y \in FiscalYears |-> NoFile]
    /\ success = << >> /\ exit_code = << >>
    /\ summary = NoSummary
    /\ detail_master = << >> /\ obligation_summary = NoSummary

\* lines 557-582: the master file after a run that parsed the files into outs;
\* nothing is written when no file yielded a table
WriteMaster(old_file, outs) ==
    IF AllData(outs) = << >> THEN old_file ELSE to_csv(old_file, CombinedTable(AllData(outs)))

\* parse_all_sf133_raw_data(source_dir), a first run on a directory
ParseAllOnce ==
    /\ pc = "rerun"
    /\ \E dir \in Directories(MaxFiles, MaxRows) :
          /\ excel_files' = dir
          /\ outcomes' = [i \in 1..Len(dir) |-> parse_sf133_raw_data(dir[i])]
          /\ master' = WriteMaster(master, outcomes')
    /\ pc' = "ran once"
    /\ UNCHANGED <<sym, tafs, derived, run, site_data, success, exit_code, summary,
                   detail_master, obligation_summary>>

\* parse_all_sf133_raw_data(source_dir), run again on the directory as it is
ParseAllTwice ==
    /\ pc = "ran once"
    /\ outcomes' = [i \in 1..Len(excel_files) |-> parse_sf133_raw_data(excel_files[i])]
    /\ master' = WriteMaster(master, outcomes')
    /\ pc' = "ran twice"
    /\ UNCHANGED <<sym, tafs, derived, run, excel_files, site_data, success, exit_code,
                   summary, detail_master, obligation_summary>>

NextRerun == ParseAllOnce \/ ParseAllTwice

SpecRerun == InitRerun /\ [][NextRerun]_vars

\* The directories of two fiscal years processed side by side: one workbook with
\* all twelve month columns or with AMT_AUG only, holding lines 2490 and 2500 of
\* one account, line 2500 alone, or the two lines of another account; or a
\* workbook with an empty sheet
YearDirectories ==
    { <<[Workbook(Education, Readable(HeaderDollars), TRUE, FALSE, FALSE, FALSE, month_cols, rows)
            EXCEPT !.name = FileName(1)]>> :
        month_cols \in {MonthlyColumns, {"AMT_AUG"}},
        rows \in { <<RowUnobligated, RowAuthority>>, <<RowAuthority>>,
                   <<RawRow(BureauNavy, <<2490>>, TafsSingle, Na, Na, Na, NaN, <<50>>),
                     RowOtherAccount>> } }
    \cup { <<[Workbook(Education, Readable(HeaderDollars), TRUE, FALSE, FALSE, FALSE, {"AMT_AUG"}, << >>)
                EXCEPT !.name = FileName(1)]>> }

\* the pairs of fiscal years processed side by side
YearPairs == {{2024, 2025}, {2024, 2026}, {2025, 2026}}

\* Two runs of process_year_data have their directories; site/data holds the
\* baseline table of an earlier run or nothing, the shared output path
\* site/data/sf133_raw_data_master.csv does not exist
InitYears ==
    /\ \E years \in YearPairs, found \in {NoFile, File(BaselineTable)} :
          /\ run = [years |-> years, current_year |-> 2026, found |-> found]
          /\ pc = [y \in years |-> "downloaded"]
          /\ excel_files \in [years -> YearDirectories]
          /\ outcomes = [y \in years |-> << >>]
          /\ success = [y \in years |-> << >>]
          /\ site_data = [y \in FiscalYears |-> IF y = BaselineYear THEN found ELSE NoFile]
          /\ summary = [files |-> [y \in years |-> NoSummary],
                        metadata |-> [y \in years |-> ""],
                        loaded |-> [y \in years |-> [z \in years |-> ""]]]
    /\ master = NoFile
    /\ sym = NoSymbol /\ tafs = << >> /\ derived = [fy |-> << >>, alloc |-> << >>]
    /\ exit_code = << >>
    /\ detail_master = << >> /\ obligation_summary = NoSummary

\* process_year_data(y), line 100: parse_all_sf133_raw_data writes the combined
\* table to site/data/sf133_raw_data_master.csv and returns that path, or
\* returns None
ParseYear(y) ==
    /\ pc[y] = "downloaded"
    /\ outcomes' = [outcomes EXCEPT ![y] =
                       [i \in 1..Len(excel_files[y]) |-> parse_sf133_raw_data(excel_files[y][i])]]
    /\ master' = WriteMaster(master, outcomes'[y])
    /\ IF AllData(outcomes'[y]) = << >>
       THEN pc' = [pc EXCEPT ![y] = "processed"] /\ success' = [success EXCEPT ![y] = <<FALSE>>]
       ELSE pc' = [pc EXCEPT ![y] = "parsed"] /\ success' = success
    /\ UNCHANGED <<sym, tafs, derived, run, excel_files, site_data, exit_code, summary,
                   detail_master, obligation_summary>>

\* process_year_data(y), lines 104-107: shutil.move of the shared output path to
\* sf133_<y>_master.csv; it raises when the file is not there, and line 124
\* returns None
MoveYear(y) ==
    /\ pc[y] = "parsed"
    /\ IF master.exists
       THEN /\ site_data' = [site_data EXCEPT ![y] = master]
            /\ master' = NoFile
            /\ pc' = [pc EXCEPT ![y] = "moved"]
            /\ success' = success
       ELSE /\ pc' = [pc EXCEPT ![y] = "processed"]
            /\ success' = [success EXCEPT ![y] = <<FALSE>>]
            /\ UNCHANGED <<site_data, master>>
    /\ UNCHANGED <<sym, tafs, derived, run, excel_files, outcomes, exit_code, summary,
                   detail_master, obligation_summary>>

\* process_year_data(y), lines 109-120: _analyze_year_data reads the table of
\* the year and the baseline table as they are on disk
AnalyzeYear(y) ==
    /\ pc[y] = "moved"
    /\ success' = [success EXCEPT ![y] =
                      <<analyze_year_data(site_data[y], y >= run.current_year,
                                          site_data[BaselineYear])>>]
    /\ pc' = [pc EXCEPT ![y] = "processed"]
    /\ UNCHANGED <<sym, tafs, derived, run, excel_files, outcomes, master, site_data,
                   exit_code, summary, detail_master, obligation_summary>>

\* the entry of fiscal_year_metadata.json for a table (lines 276-280)
MetadataEntry(master_file) == find_latest_month(read_csv(master_file))

\* create_year_summaries.py --year y, lines 121-264: the summary of the year is
\* written and fiscal_year_metadata.json is loaded
SummarizeYear(y) ==
    /\ pc[y] = "processed"
    /\ IF site_data[y].exists /\ MetadataEntry(site_data[y]) # ""
       THEN /\ summary' = [summary EXCEPT !.files[y] = create_year_summary(site_data[y]),
                                          !.loaded[y] = summary.metadata]
            /\ pc' = [pc EXCEPT ![y] = "summarized"]
       ELSE /\ summary' = summary
            /\ pc' = [pc EXCEPT ![y] = "done"]
    /\ UNCHANGED <<sym, tafs, derived, run, excel_files, outcomes, master, site_data,
                   success, exit_code, detail_master, obligation_summary>>

\* create_year_summaries.py --year y, lines 276-285: the loaded metadata with
\* the entry of the year is written back
SaveMetadata(y) ==
    /\ pc[y] = "summarized"
    /\ summary' = [summary EXCEPT !.metadata =
                      [summary.loaded[y] EXCEPT ![y] = MetadataEntry(site_data[y])]]
    /\ pc' = [pc EXCEPT ![y] = "done"]
    /\ UNCHANGED <<sym, tafs, derived, run, excel_files, outcomes, master, site_data,
                   success, exit_code, detail_master, obligation_summary>>

NextYears ==
    \E y \in DOMAIN pc :
        ParseYear(y) \/ MoveYear(y) \/ AnalyzeYear(y) \/ SummarizeYear(y) \/ SaveMetadata(y)

SpecYears == InitYears /\ [][NextYears]_vars

\* most cells of a column that is forward filled
MaxColumn == 4

\* Cells of a descriptive column: missing, two fund symbols, line numbers as
\* text with and without decimal, a five-digit number
FillCells ==
    { NaS, TafsAlloc91, <<"A">>, <<"2", "4", "9", "0">>, <<"2", "5", "0", "0", ".", "0">>,
      <<"2", "4", "9", "0", "1">> }

\* A column of a 'TAFS detail' sheet has been read; it is not filled yet
InitFill ==
    /\ pc = "fill"
    /\ detail_master \in SeqsUpTo(FillCells, MaxColumn)
    /\ derived = [filled |-> << >>]
    /\ sym = NoSymbol /\ tafs = << >>
    /\ run = NoRun
    /\ excel_files = << >> /\ outcomes = << >> /\ master = NoFile
    /\ site_data = [y \in FiscalYears |-> NoFile]
    /\ success = << >> /\ exit_code = << >>
    /\ summary = NoSummary
    /\ obligation_summary = NoSummary

\* parse_sf133_tafs_detail, lines 165-184: the forward fill of one column of
\* fill_columns
ForwardFill ==
    /\ pc = "fill"
    /\ derived' = [filled |-> fill_column(detail_master)]
    /\ pc' = "filled"
    /\ UNCHANGED <<sym, tafs, run, excel_files, outcomes, master, site_data, success,
                   exit_code, summary, detail_master, obligation_summary>>

NextFill == ForwardFill

SpecFill == InitFill /\ [][NextFill]_vars

\* process_new_month has been called: site/data holds the master table of the
\* website from an earlier run or nothing, raw_data holds the month's directory
InitMonth ==
    /\ pc = "backup"
    /\ \E download \in BOOLEAN, previous \in {NoFile, File(BaselineTable)} :
          /\ run = [download |-> download, previous |-> previous]
          /\ master = previous
    /\ excel_files \in YearDirectories
    /\ outcomes = << >>
    /\ derived = [new_data |-> NoFile, failed_test |-> 0]
    /\ success = << >>
    /\ sym = NoSymbol /\ tafs = << >>
    /\ site_data = [y \in FiscalYears |-> NoFile]
    /\ exit_code = << >>
    /\ summary = NoSummary
    /\ detail_master = << >> /\ obligation_summary = NoSummary

\* Step 1 (lines 350-352): backup_current_data copies site/data or fails
BackupCurrentData ==
    /\ pc = "backup"
    /\ \E ok \in BOOLEAN :
          /\ outcomes' = Append(outcomes, Stage("backup", ok))
          /\ IF ok THEN pc' = (IF run.download THEN "download" ELSE "process") /\ success' = success
                   ELSE pc' = "returned" /\ success' = <<FALSE>>
    /\ UNCHANGED <<sym, tafs, derived, run, excel_files, master, site_data, exit_code,
                   summary, detail_master, obligation_summary>>

\* Step 2 (lines 355-358): download_new_data, when requested
DownloadNewData ==
    /\ pc = "download"
    /\ \E ok \in BOOLEAN :
          /\ outcomes' = Append(outcomes, Stage("download", ok))
          /\ IF ok THEN pc' = "process" /\ success' = success
                   ELSE pc' = "returned" /\ success' = <<FALSE>>
    /\ UNCHANGED <<sym, tafs, derived, run, excel_files, master, site_data, exit_code,
                   summary, detail_master, obligation_summary>>

\* Step 3 (lines 361-364): process_month_data moves the table
\* parse_all_sf133_raw_data wrote to sf133_<month>_<year>_master.csv
ProcessMonthData ==
    /\ pc = "process"
    /\ LET new_data == WriteMaster(NoFile, [i \in 1..Len(excel_files) |->
                                               parse_sf133_raw_data(excel_files[i])])
       IN /\ derived' = [derived EXCEPT !.new_data = new_data]
          /\ outcomes' = Append(outcomes, Stage("processing", new_data.exists))
          /\ IF new_data.exists THEN pc' = "test" /\ success' = success
                                ELSE pc' = "returned" /\ success' = <<FALSE>>
    /\ UNCHANGED <<sym, tafs, run, excel_files, master, site_data, exit_code, summary,
                   detail_master, obligation_summary>>

\* Step 4 (lines 367-370): run_data_integrity_tests on the new table
RunDataIntegrityTests ==
    /\ pc = "test"
    /\ \E failed_test \in 0..Len(IntegrityTestNames), raised \in BOOLEAN :
          /\ derived' = [derived EXCEPT !.failed_test = failed_test]
          /\ outcomes' = Append(outcomes,
                                Stage("tests", run_data_integrity_tests(failed_test, raised)))
          /\ IF run_data_integrity_tests(failed_test, raised)
             THEN pc' = "update" /\ success' = success
             ELSE pc' = "returned" /\ success' = <<FALSE>>
    /\ UNCHANGED <<sym, tafs, run, excel_files, master, site_data, exit_code, summary,
                   detail_master, obligation_summary>>

\* Step 5 (lines 373-379) and update_website (lines 296-316): the new table is
\* copied over sf133_master_table.csv, or the copy raises
UpdateWebsite ==
    /\ pc = "update"
    /\ \E ok \in BOOLEAN :
          /\ outcomes' = Append(outcomes, Stage("website update", ok))
          /\ master' = IF ok THEN derived.new_data ELSE master
          /\ success' = <<ok>>
    /\ pc' = "returned"
    /\ UNCHANGED <<sym, tafs, derived, run, excel_files, site_data, exit_code, summary,
                   detail_master, obligation_summary>>

NextMonth ==
    \/ BackupCurrentData
    \/ DownloadNewData
    \/ ProcessMonthData
    \/ RunDataIntegrityTests
    \/ UpdateWebsite

SpecMonth == InitMonth /\ [][NextMonth]_vars

\* ------------------------------------------------------------------------
\* update_sf133_data.py: SF133UpdateOrchestrator.update_with_new_month, main
\* ------------------------------------------------------------------------

\* update_with_new_month, lines 90-94, and main, line 224: the pipeline
\* returned False and the program exits with code 1
PipelineFailed ==
    /\ pc = "returned" /\ success = <<FALSE>>
    /\ exit_code' = <<1>>
    /\ pc' = "exited"
    /\ UNCHANGED <<sym, tafs, derived, run, excel_files, outcomes, master, site_data,
                   success, summary, detail_master, obligation_summary>>

\* update_with_new_month, lines 96-110, run_comprehensive_tests (lines 50-83)
\* and main, line 224: after process_new_month returned True the table
\* process_month_data moved to site/data/sf133_<month>_<year>_master.csv exists
\* and is tested; integrity_passed is all(integrity_results.values()), raised
\* tells that the tester or the cross-year validation raised
RunComprehensiveTests ==
    /\ pc = "returned" /\ success = <<TRUE>>
    /\ \E integrity_passed \in BOOLEAN, raised \in BOOLEAN :
          LET test_success == run_comprehensive_tests(integrity_passed, raised)
          IN /\ outcomes' = Append(outcomes, Stage("comprehensive tests", test_success))
             /\ success' = <<test_success>>
             /\ exit_code' = <<IF test_success THEN 0 ELSE 1>>
    /\ pc' = "exited"
    /\ UNCHANGED <<sym, tafs, derived, run, excel_files, master, site_data, summary,
                   detail_master, obligation_summary>>

NextUpdate ==
    \/ BackupCurrentData
    \/ DownloadNewData
    \/ ProcessMonthData
    \/ RunDataIntegrityTests
    \/ UpdateWebsite
    \/ PipelineFailed
    \/ RunComprehensiveTests

SpecUpdate == InitMonth /\ [][NextUpdate]_vars

\* ------------------------------------------------------------------------
\* parse_sf133_raw_data, lines 171-183: the column normalization of one sheet
\* ------------------------------------------------------------------------

\* the columns of a Raw Data sheet: the descriptive columns, then the amount
\* columns the sheet carries, in the order of the report
SheetColumns(amounts) ==
    <<"BUREAU", "OMB_ACCT", "LINENO">>
    \o SelectSeq(<<"AMT_OCT", "AMT_NOV", "AMT_DEC", "AMT1", "AMT_JAN", "AMT_FEB",
                   "AMT_MAR", "AMT2", "AMT_APR", "AMT_MAY", "AMT_JUN", "AMT3",
                   "AMT_JUL", "AMT_AUG", "AMT_SEP", "AMT4">>,
                 LAMBDA c : c \in amounts)

\* the quarter-end columns, per month and per quarter
QuarterEndColumns ==
    {"AMT_DEC", "AMT_MAR", "AMT_JUN", "AMT_SEP", "AMT1", "AMT2", "AMT3", "AMT4"}

InitColumns ==
    /\ pc = "read"
    /\ \E quarter_ends \in SUBSET QuarterEndColumns,
          others \in {{}, {"AMT_OCT", "AMT_NOV"}, MonthlyColumns \ QuarterEndColumns} :
          run = [columns |-> SheetColumns(quarter_ends \cup others)]
    /\ derived = [columns |-> << >>, available_month_columns |-> << >>]
    /\ excel_files = << >> /\ outcomes = << >> /\ master = NoFile
    /\ success = << >>
    /\ sym = NoSymbol /\ tafs = << >>
    /\ site_data = [y \in FiscalYears |-> NoFile]
    /\ exit_code = << >>
    /\ summary = NoSummary
    /\ detail_master = << >> /\ obligation_summary = NoSummary

\* lines 171-183
RenameColumns ==
    /\ pc = "read"
    /\ derived' = [columns |-> rename(run.columns),
                   available_month_columns |-> available_month_columns(run.columns)]
    /\ pc' = "renamed"
    /\ UNCHANGED <<sym, tafs, run, excel_files, outcomes, master, site_data, success,
                   exit_code, summary, detail_master, obligation_summary>>

NextColumns == RenameColumns

SpecColumns == InitColumns /\ [][NextColumns]_vars

\* ------------------------------------------------------------------------
\* validate_years.py: main
\* ------------------------------------------------------------------------

ValidatedYears == {2024, 2025}

\* the summary files site/data may hold when main starts; one file carries a
\* name whose year text is not made of digits
InitialSummaryFiles ==
    UNION {{ObligationCsv(y), SummaryJson(y), MonthlyCsv(y, "Aug")} : y \in ValidatedYears}
    \cup {SummaryFile("summary json", <<2024, "old">>)}

InitValidate ==
    /\ pc = "completeness"
    /\ \E is_github_actions \in BOOLEAN, files \in SUBSET InitialSummaryFiles,
          masters \in SUBSET ValidatedYears :
          /\ run = [is_github_actions |-> is_github_actions, files |-> files]
          /\ site_data = [files |-> files, masters |-> masters]
    /\ derived = [completeness_passing_years |-> {}, structure_passing_years |-> {},
                  passing_both_sorted |-> << >>, approved_years |-> << >>,
                  generated |-> {}, todo |-> << >>,
                  successful_monthly_years |-> << >>, successful_year_summaries |-> << >>]
    /\ exit_code = << >>
    /\ excel_files = << >> /\ outcomes = << >> /\ master = NoFile
    /\ success = << >>
    /\ sym = NoSymbol /\ tafs = << >>
    /\ summary = NoSummary
    /\ detail_master = << >> /\ obligation_summary = NoSummary

\* lines 34-43: the completeness suite; it raises or returns the years that
\* pass among those that have an obligation summary
RunCompletenessTests ==
    /\ pc = "completeness"
    /\ \E raised \in BOOLEAN, passing \in SUBSET available_years(site_data.files) :
          IF raised
          THEN exit_code' = <<1>> /\ pc' = "returned" /\ derived' = derived
          ELSE /\ derived' = [derived EXCEPT !.completeness_passing_years = passing]
               /\ pc' = "structure" /\ exit_code' = exit_code
    /\ UNCHANGED <<sym, tafs, run, excel_files, outcomes, master, site_data, success,
                   summary, detail_master, obligation_summary>>

\* lines 47-55: the structure suite
RunStructureTests ==
    /\ pc = "structure"
    /\ \E raised \in BOOLEAN, passing \in SUBSET available_years(site_data.files) :
          IF raised
          THEN exit_code' = <<1>> /\ pc' = "returned" /\ derived' = derived
          ELSE /\ derived' = [derived EXCEPT !.structure_passing_years = passing]
               /\ pc' = "approve" /\ exit_code' = exit_code
    /\ UNCHANGED <<sym, tafs, run, excel_files, outcomes, master, site_data, success,
                   summary, detail_master, obligation_summary>>

\* lines 59-104: the years passing both suites; none is a failure, otherwise
\* approved_years.json is written and GitHub Actions mode returns 0
ApproveYears ==
    /\ pc = "approve"
    /\ LET passing_both == derived.completeness_passing_years
                              \cap derived.structure_passing_years
       IN IF passing_both = {}
          THEN exit_code' = <<1>> /\ pc' = "returned" /\ derived' = derived
          ELSE /\ derived' = [derived EXCEPT !.passing_both_sorted = sorted(passing_both),
                                             !.approved_years = <<sorted(passing_both)>>]
               /\ IF run.is_github_actions
                  THEN exit_code' = <<0>> /\ pc' = "returned"
                  ELSE exit_code' = exit_code /\ pc' = "cleanup"
    /\ UNCHANGED <<sym, tafs, run, excel_files, outcomes, master, site_data, success,
                   summary, detail_master, obligation_summary>>

\* lines 106-164: the files of the years with data that did not pass are unlinked
CleanUp ==
    /\ pc = "cleanup"
    /\ LET remove == years_to_remove(all_data_years(site_data.files),
                                     {derived.passing_both_sorted[i] :
                                         i \in 1..Len(derived.passing_both_sorted)})
       IN site_data' = [site_data EXCEPT !.files = @ \ unlinked(@, remove)]
    /\ derived' = [derived EXCEPT !.todo = derived.passing_both_sorted]
    /\ pc' = "monthly"
    /\ UNCHANGED <<sym, tafs, run, excel_files, outcomes, master, success, exit_code,
                   summary, detail_master, obligation_summary>>

\* lines 169-190, one turn of the loop: the year is skipped without master
\* file; create_monthly_summaries writes the files of the months and the
\* combined file, returns no file, or raises after writing some
GenerateMonthlyData ==
    /\ pc = "monthly" /\ derived.todo # << >>
    /\ LET year == Head(derived.todo) IN
       IF year \notin site_data.masters
       THEN /\ derived' = [derived EXCEPT !.todo = Tail(@)]
            /\ site_data' = site_data
       ELSE \E result \in {"files", "none", "raised"} :
               LET written == CASE result = "files" -> {MonthlyCsv(year, "Aug"), MonthlyCsv(year, "all")}
                                [] result = "none" -> {}
                                [] result = "raised" -> {MonthlyCsv(year, "Aug")}
               IN /\ site_data' = [site_data EXCEPT !.files = @ \cup written]
                  /\ derived' = [derived EXCEPT
                                    !.todo = Tail(@),
                                    !.generated = @ \cup written,
                                    !.successful_monthly_years =
                                        IF result = "files" THEN Append(@, year) ELSE @]
    /\ UNCHANGED <<pc, sym, tafs, run, excel_files, outcomes, master, success, exit_code,
                   summary, detail_master, obligation_summary>>

\* lines 192-200: the loop over the approved years has ended
MonthlyDataDone ==
    /\ pc = "monthly" /\ derived.todo = << >>
    /\ IF derived.successful_monthly_years # << >>
       THEN /\ pc' = "year summaries"
            /\ derived' = [derived EXCEPT !.todo = derived.successful_monthly_years]
            /\ exit_code' = exit_code
       ELSE pc' = "returned" /\ exit_code' = <<0>> /\ derived' = derived
    /\ UNCHANGED <<sym, tafs, run, excel_files, outcomes, master, site_data, success,
                   summary, detail_master, obligation_summary>>

\* lines 207-217, one turn of the loop: create_year_summary writes the two
\* year files, or raises before or between them
GenerateYearSummary ==
    /\ pc = "year summaries" /\ derived.todo # << >>
    /\ LET year == Head(derived.todo) IN
       \E written \in {{ObligationCsv(year), SummaryJson(year)}, {ObligationCsv(year)}, {}} :
          /\ site_data' = [site_data EXCEPT !.files = @ \cup written]
          /\ derived' = [derived EXCEPT
                            !.todo = Tail(@),
                            !.generated = @ \cup written,
                            !.successful_year_summaries =
                                IF Cardinality(written) = 2 THEN Append(@, year) ELSE @]
    /\ UNCHANGED <<pc, sym, tafs, run, excel_files, outcomes, master, success, exit_code,
                   summary, detail_master, obligation_summary>>

\* lines 219-233
YearSummariesDone ==
    /\ pc = "year summaries" /\ derived.todo = << >>
    /\ pc' = "returned" /\ exit_code' = <<0>>
    /\ UNCHANGED <<sym, tafs, derived, run, excel_files, outcomes, master, site_data,
                   success, summary, detail_master, obligation_summary>>

NextValidate ==
    \/ RunCompletenessTests
    \/ RunStructureTests
    \/ ApproveYears
    \/ CleanUp
    \/ GenerateMonthlyData
    \/ MonthlyDataDone
    \/ GenerateYearSummary
    \/ YearSummariesDone

SpecValidate == InitValidate /\ [][NextValidate]_vars

\* ------------------------------------------------------------------------
\* Properties
\* ------------------------------------------------------------------------

\* the rows of the table of the processed year as create_year_summary reads them
YearRows == read_csv(site_data[run.year]).rows

\* C1: when one row of one source file disagrees with its authoritative columns,
\* parse_all_sf133_raw_data aborts: no combined table is produced from the
\* remaining files.
C1_AbortsOnMismatch ==
    pc = "parsed" =>
        ((\E i \in 1..Len(outcomes) : outcomes[i].mismatches # << >>) => ~master.exists)

\* the workbook parse_sf133_raw_data was applied to, and what it returned
InputBook == excel_files[1]

Returned == outcomes[1]

\* the cross-validation of the workbook did not fail
ValidationSucceeded == Returned.raised # "ValueError"

\* the normalized authoritative cell and the normalized derived text are equal
Agree(cell, dtype, derived_text) ==
    normalize_fy_field(cell, dtype) = normalize_fy_text(derived_text)

\* the authoritative cell is not empty after normalization
Given(cell, dtype) == normalize_fy_field(cell, dtype) # << >>

\* a row of the workbook differs from its authoritative columns; with only_given,
\* empty authoritative cells are not compared
RowDiffers(wb, r, only_given) ==
    LET fy == parse_tafs_to_match_fy1_fy2(r.TAFS)
        alloc == derive_alloc_from_tafs(r.TAFS)
        differs(cell, dtype, derived_text) ==
            (only_given => Given(cell, dtype)) /\ ~Agree(cell, dtype, derived_text)
    IN \/ wb.has_fy /\ differs(r.FY1, FY1Dtype(wb), fy[1])
       \/ wb.has_fy /\ differs(r.FY2, FY2Dtype(wb), fy[2])
       \/ wb.has_alloc /\ differs(r.ALLOC, AllocDtype(wb), alloc)

\* the workbook reaches the cross-validation
CrossValidated(wb) ==
    /\ wb.sheets = "ok" /\ Len(wb.rows) > 0 /\ wb.has_lineno
    /\ wb.has_fy \/ wb.has_alloc

C3_ExitZeroOnlyWithoutFailure ==
    (pc = "exited" /\ exit_code = <<0>>) =>
        /\ \A i \in 1..Len(outcomes) : outcomes[i].mismatches = << >>
        /\ \E i \in 1..Len(outcomes) : outcomes[i].ret = "df"

\* the rows of the workbook that reach the aggregation
KeptRows(wb) ==
    {i \in 1..Len(wb.rows) : StandardLine(wb.rows[i]) /\ KeyComplete(wb, wb.rows[i])}

\* the key of an input row and of an output row
InKey(wb, r) ==
    <<r.BUREAU, r.OMB_ACCT, r.LINENO, parse_tafs_to_match_fy1_fy2(r.TAFS)[1],
      parse_tafs_to_match_fy1_fy2(r.TAFS)[2], derive_alloc_from_tafs(r.TAFS)>>
    \o (IF wb.has_tr THEN <<r.TRACCT, r.TRAG>> ELSE << >>)

OutKey(wb, o) ==
    <<o.BUREAU, o.OMB_ACCT, o.LINENO, o.DERIVED_FY1, o.DERIVED_FY2, o.DERIVED_ALLOC>>
    \o (IF wb.has_tr THEN <<o.TRACCT, o.TRAG>> ELSE << >>)

RECURSIVE SumOfAmounts(_, _, _)
\* the sum of the amounts of column c over the rows with index in S
SumOfAmounts(rows, S, c) ==
    IF S = {} THEN 0
    ELSE LET i == CHOOSE k \in S : TRUE IN
         (IF rows[i].amt[c] = NaN THEN 0 ELSE rows[i].amt[c][1]) + SumOfAmounts(rows, S \ {i}, c)

\* the multiplier the header of the workbook asks for
HasToken(wb, token) ==
    wb.detail.readable /\ \E i \in 1..Len(wb.detail.cells) : Contains(Lower(wb.detail.cells[i]), token)

Multiplier(wb) == IF HasToken(wb, TokThousand) THEN 1000 ELSE 1

\* C4: the rows of a file with the same key become one output row whose amount
\* for each month is the sum of their amounts, and rows with different keys, in
\* particular different allocation codes, stay apart.
C4_GroupsSummed ==
    (pc = "parsed file" /\ Returned.ret = "df" /\ InputBook.has_lineno) =>
        LET wb == InputBook
            out == Returned.df.rows
            kept == KeptRows(wb)
        IN /\ \A i \in kept :
                 Cardinality({j \in 1..Len(out) : OutKey(wb, out[j]) = InKey(wb, wb.rows[i])}) = 1
           /\ Len(out) = Cardinality({InKey(wb, wb.rows[i]) : i \in kept})
           /\ \A j \in 1..Len(out) : \A c \in wb.month_cols :
                 out[j].amt[RAW_DATA_COLUMN_MAPPING[c]] =
                    <<Multiplier(wb) *
                      SumOfAmounts(wb.rows, {i \in kept : InKey(wb, wb.rows[i]) = OutKey(wb, out[j])}, c)>>

\* two rows with the same key and the amounts 100 and 50 became one row with 150
C4_Witness ==
    /\ pc = "parsed file" /\ Returned.ret = "df" /\ InputBook.has_lineno
    /\ Len(InputBook.rows) = 2
    /\ InputBook.rows[1].amt["AMT_SEP"] = <<100>>
    /\ InputBook.rows[2].amt["AMT_SEP"] = <<50>>
    /\ InKey(InputBook, InputBook.rows[1]) = InKey(InputBook, InputBook.rows[2])
    /\ Len(Returned.df.rows) = 1
    /\ Returned.df.rows[1].amt["Sep"] = <<150>>

\* the six-column key of a row of the combined table
SixKey(r) == <<r.BUREAU, r.OMB_ACCT, r.LINENO, r.DERIVED_FY1, r.DERIVED_FY2, r.DERIVED_ALLOC>>

ScaledBy(wb, out, m) ==
    /\ IF wb.has_lineno
       THEN \A c \in wb.month_cols :
               SumOfAmounts(out, 1..Len(out), RAW_DATA_COLUMN_MAPPING[c])
                  = m * SumOfAmounts(wb.rows, KeptRows(wb), c)
       ELSE /\ Len(out) = Len(wb.rows)
            /\ \A i \in 1..Len(out) : \A c \in wb.month_cols :
                  out[i].amt[RAW_DATA_COLUMN_MAPPING[c]] = Scaled(wb.rows[i].amt[c], m)
    /\ \A j \in 1..Len(out) :
          /\ wb.has_lineno => \E i \in 1..Len(wb.rows) : out[j].LINENO = wb.rows[i].LINENO
          /\ \E i \in 1..Len(wb.rows) : out[j].FY1 = wb.rows[i].FY1
          /\ \E i \in 1..Len(wb.rows) : out[j].FY2 = wb.rows[i].FY2
          /\ \E i \in 1..Len(wb.rows) : out[j].ALLOC = wb.rows[i].ALLOC
          /\ wb.has_tr => \E i \in 1..Len(wb.rows) :
                out[j].TRACCT = wb.rows[i].TRACCT /\ out[j].TRAG = wb.rows[i].TRAG

\* C6 as stated: 'thousand' in the header multiplies the amounts by 1000 and
\* leaves the identifier columns alone; 'dollar', neither token, or an unreadable
\* header leaves every cell unchanged.
C6_DollarLeavesUnchanged ==
    (pc = "parsed file" /\ Returned.ret = "df") =>
        /\ HasToken(InputBook, TokThousand) => ScaledBy(InputBook, Returned.df.rows, 1000)
        /\ (HasToken(InputBook, TokDollar) \/ ~HasToken(InputBook, TokThousand))
              => ScaledBy(InputBook, Returned.df.rows, 1)

\* C6: 'thousand' in the header multiplies the amounts by 1000 and leaves the
\* identifier columns alone, also when 'dollar' is there too; a header without
\* 'thousand', or an unreadable one, leaves every cell unchanged.
C6_ThousandWins ==
    (pc = "parsed file" /\ Returned.ret = "df") =>
        /\ HasToken(InputBook, TokThousand) => ScaledBy(InputBook, Returned.df.rows, 1000)
        /\ ~HasToken(InputBook, TokThousand) => ScaledBy(InputBook, Returned.df.rows, 1)

\* a sheet without LINENO column under the header '(In thousands)': 1234 became
\* 1234000, FY1 = 12 stayed
C6_Witness ==
    /\ pc = "parsed file" /\ Returned.ret = "df"
    /\ InputBook.detail = Readable(HeaderThousands)
    /\ ~InputBook.has_lineno
    /\ InputBook.rows[1].amt["AMT_SEP"] = <<1234>>
    /\ Returned.df.rows[1].amt["Sep"] = <<1234000>>
    /\ Returned.df.rows[1].FY1 = Num(12)

\* the table holds a row of the given line for the account of a summary record
YearTableHasLine(rec, line) ==
    \E i \in 1..Len(YearRows) :
        /\ YearRows[i].Agency = rec.Agency
        /\ YearRows[i].TAFS = rec.TAFS
        /\ YearRows[i].LINENO = <<line>>

DetailTableHasLine(rec, line) ==
    \E i \in 1..Len(detail_master) :
        LET r == detail_master[i] IN
        \/ r.Agency # OIA /\ r.Agency = rec.Agency /\ r.Col_4 = rec.TAFS /\ r.Line_No = <<line>>
        \/ r.Agency = OIA /\ rec.Agency = OIA /\ r.Col_6 = rec.TAFS /\ r.Col_9 = <<line>>

\* C7: every record of the account summary belongs to an account that has both a
\* line-2490 row and a line-2500 row; an account with one side only is left out.
C7_OneSidedExcluded ==
    pc = "summarized" =>
        /\ run # NoRun =>
              \A k \in 1..Len(summary.records) :
                  YearTableHasLine(summary.records[k], 2490) /\ YearTableHasLine(summary.records[k], 2500)
        /\ \A k \in 1..Len(obligation_summary.records) :
              /\ DetailTableHasLine(obligation_summary.records[k], 2490)
              /\ DetailTableHasLine(obligation_summary.records[k], 2500)

\* the year's table holds line 2500 of an account without line 2490, the summary
\* was written, and the account is not in it
C7_Witness ==
    /\ pc = "summarized" /\ run # NoRun /\ summary.written
    /\ \E i \in 1..Len(YearRows) :
          /\ YearRows[i].LINENO = <<2500>>
          /\ \A j \in 1..Len(YearRows) :
                YearRows[j].LINENO = <<2490>> => YearRows[j].TAFS # YearRows[i].TAFS
          /\ \A k \in 1..Len(summary.records) : summary.records[k].TAFS # YearRows[i].TAFS

\* no two records of the sequence carry the same (agency, fund-symbol text)
OneRecordPerAccount(records) ==
    \A i, j \in 1..Len(records) :
        i # j => <<records[i].Agency, records[i].TAFS>> # <<records[j].Agency, records[j].TAFS>>

\* C8: no (agency, fund-symbol text) pair appears in more than one record of the
\* account summary.
C8_OneRecordPerAccount ==
    pc = "summarized" =>
        OneRecordPerAccount(summary.records) /\ OneRecordPerAccount(obligation_summary.records)

\* the percentage of a record against its two amounts; exact asks for the
\* quotient itself, otherwise for the quotient rounded to one decimal
PercentRule(rec, exact) ==
    LET x == rec.amt_2490
        y == rec.amt_2500
        p == rec.Percentage_Unobligated
    IN IF y = NaN THEN p = NaN
       ELSE IF y[1] = 0 THEN p = (IF x = <<0>> THEN <<0>> ELSE <<1000>>)
       ELSE IF x = NaN THEN p = NaN
       ELSE /\ p # NaN
            /\ IF exact THEN p[1] * y[1] = 1000 * x[1]
               ELSE 2 * Abs(p[1] * y[1] - 1000 * x[1]) <= Abs(y[1])

\* C9 as stated: the percentage of every record is 0 when both amounts are zero,
\* 100 when only the budget authority is zero, and balance/authority*100
\* otherwise.
C9_ExactQuotient ==
    pc = "summarized" =>
        /\ \A k \in 1..Len(summary.records) : PercentRule(summary.records[k], TRUE)
        /\ \A k \in 1..Len(obligation_summary.records) :
              PercentRule(obligation_summary.records[k], TRUE)

\* C9: the percentage of every record is 0 when both amounts are zero, 100 when
\* only the budget authority is zero, and otherwise balance/authority*100 rounded
\* to one decimal, a negative authority giving a negative percentage.
C9_RoundedQuotient ==
    pc = "summarized" =>
        /\ \A k \in 1..Len(summary.records) : PercentRule(summary.records[k], FALSE)
        /\ \A k \in 1..Len(obligation_summary.records) :
              PercentRule(obligation_summary.records[k], FALSE)

\* a record of balance 50 and authority -200 carries -25.0
C9_Witness ==
    /\ pc = "summarized"
    /\ \E k \in 1..Len(obligation_summary.records) :
          /\ obligation_summary.records[k].amt_2490 = <<50>>
          /\ obligation_summary.records[k].amt_2500 = <<-200>>
          /\ obligation_summary.records[k].Percentage_Unobligated = <<-250>>

\* C10: for a standard-layout fund symbol, the derived (begin, end) pair is ('', '')
\* without period, ('', 'X') for /X, ('', NN) for /NN and (NN, MM) for NN/MM,
\* whatever description follows the ' - ' separator.
C10_PeriodDerivation ==
    pc = "derived" =>
        /\ sym.period.kind = "absent" => derived.fy = << << >>, << >> >>
        /\ sym.period.kind = "noyear" => derived.fy = << << >>, <<"X">> >>
        /\ sym.period.kind = "single" => derived.fy = << << >>, sym.period.mm >>
        /\ sym.period.kind = "multi"  => derived.fy = << sym.period.nn, sym.period.mm >>

\* '17-1804 /20 - Operation and Maintenance, Navy' has been parsed
C10_Witness ==
    /\ pc = "derived"
    /\ sym.code = <<"1", "7", "-", "1", "8", "0", "4">>
    /\ sym.period = [kind |-> "single", nn |-> << >>, mm |-> <<"2", "0">>]
    /\ sym.desc = DescNavy
    /\ derived.fy = << << >>, <<"2", "0">> >>

\* C11: the derived allocation code is the middle segment of a three-segment
\* account code and the first segment of a two-segment one, whatever period
\* marker or description follows the code.
C11_AllocFromSegments ==
    pc = "derived" =>
        /\ Len(Split(sym.code, <<"-">>)) = 3 => derived.alloc = Split(sym.code, <<"-">>)[2]
        /\ Len(Split(sym.code, <<"-">>)) = 2 => derived.alloc = Split(sym.code, <<"-">>)[1]

\* '14-91-0400 12/13 - Grants - FY 12/13 /X' has given '91'
C11_Witness ==
    /\ pc = "derived"
    /\ sym.code = <<"1", "4", "-", "9", "1", "-", "0", "4", "0", "0">>
    /\ sym.period.kind = "multi"
    /\ sym.desc = DescGrants
    /\ derived.alloc = <<"9", "1">>

\* the display values of a period marker: <<period of performance, expiration year>>
DisplayOf(period) ==
    CASE period.kind = "absent" -> NoPeriod
      [] period.kind = "noyear" -> <<NoYear, NoYear>>
      [] period.kind = "single" ->
            << <<"F", "Y", "2", "0">> \o period.mm, <<"2", "0">> \o period.mm >>
      [] period.kind = "multi" ->
            << <<"F", "Y", "2", "0">> \o period.nn \o <<"-", "F", "Y", "2", "0">> \o period.mm,
               <<"2", "0">> \o period.mm >>
      [] period.kind = "open" ->
            << <<"F", "Y", "2", "0">> \o period.nn \o <<"-">> \o NoYear, NoYear >>

\* C12: under both layouts the period marker gives the same display values:
\* 'No Year' for /X, 'FY20NN' and '20NN' for /NN, 'FY20NN-FY20MM' and '20MM' for
\* NN/MM, 'FY20NN-No Year' for NN/X.
C12_SameDisplayUnderBothLayouts ==
    (pc = "components" /\ sym.period.kind # "absent") =>
        /\ derived.period_of_perf = DisplayOf(sym.period)[1]
        /\ sym.period.kind \in {"single", "multi"} =>
              derived.expiration_year = DisplayOf(sym.period)[2]

\* C13: under the catch-all layout the account number is the whole first token
\* of the code part, and the period is read from the second token.
C13_CatchAllAccountIsFirstToken ==
    (pc = "components" /\ derived.agency = OIA) =>
        /\ derived.account_num = sym.code
        /\ sym.period.kind \in {"absent", "noyear", "single", "multi"} =>
              /\ derived.period_of_perf = DisplayOf(sym.period)[1]
              /\ derived.expiration_year = DisplayOf(sym.period)[2]

\* '95-2300 24/25 - Salaries and Expenses' of Other Independent Agencies has given
\* '95-2300', 'FY2024-FY2025', '2025'
C13_Witness ==
    /\ pc = "components" /\ derived.agency = OIA
    /\ tafs = <<"9", "5", "-", "2", "3", "0", "0", " ", "2", "4", "/", "2", "5", " ", "-", " ">>
                 \o DescSalaries
    /\ derived.account_num = <<"9", "5", "-", "2", "3", "0", "0">>
    /\ derived.period_of_perf = <<"F", "Y", "2", "0", "2", "4", "-", "F", "Y", "2", "0", "2", "5">>
    /\ derived.expiration_year = <<"2", "0", "2", "5">>

\* C14: two field values that differ only by leading zeros, by a trailing '.0'
\* or by the case of the X sentinel have the same normalized value, and
\* normalizing twice gives what normalizing once gives.
C14_NormalizerTolerant ==
    pc = "normalized" =>
        /\ derived.twice = derived.once
        /\ IsDigit(sym.base) => derived.once = normalize_fy_field(Txt(sym.base), "object")
        /\ sym.base \in {<<"x">>, <<"X">>} => derived.once = <<"X">>

\* the rows of the combined table that came from the workbook of the given name
RowsFrom(name) == SelectSeq(master.rows, LAMBDA r : r.Source_File = name)

\* the rows parse_sf133_raw_data returned for workbook i are in the combined table
Ingested(i) ==
    /\ master.exists
    /\ Len(RowsFrom(excel_files[i].name)) = Len(outcomes[i].df.rows)
    /\ \A k \in 1..Len(outcomes[i].df.rows) :
          /\ RowsFrom(excel_files[i].name)[k].LINENO = outcomes[i].df.rows[k].LINENO
          /\ RowsFrom(excel_files[i].name)[k].TAFS = clean_text_field(outcomes[i].df.rows[k].TAFS)
          /\ \A m \in outcomes[i].df.months :
                RowsFrom(excel_files[i].name)[k].amt[m] = outcomes[i].df.rows[k].amt[m]

\* workbook i has no 'Raw Data' sheet, an empty one, or cannot be read
Skipped(i) == excel_files[i].sheets # "ok" \/ excel_files[i].rows = << >>

\* C15: a workbook without Raw Data sheet, with an empty one or that cannot be
\* read is skipped and contributes no row; the rows of every other workbook that
\* yields a table are in the combined table, wherever the skipped ones stand in
\* the directory.
C15_SkippedFilesDoNotStopIngestion ==
    pc = "parsed" =>
        \A i \in 1..Len(excel_files) :
            /\ Skipped(i) => outcomes[i].ret = "None" /\ (master.exists => RowsFrom(excel_files[i].name) = << >>)
            /\ (outcomes[i].ret = "df" /\ outcomes[i].df.rows # << >>) => Ingested(i)

\* an unreadable workbook came first, and the rows of the second are in the table
C15_Witness ==
    /\ pc = "parsed" /\ Len(excel_files) = 2
    /\ excel_files[1].sheets = "unreadable"
    /\ outcomes[2].ret = "df" /\ outcomes[2].df.rows # << >>
    /\ master.exists /\ Len(master.rows) = Len(outcomes[2].df.rows)

\* the rows of the workbook the NaN filter removes, and those without line number
IncompleteRows(wb) ==
    {i \in 1..Len(wb.rows) : StandardLine(wb.rows[i]) /\ ~KeyComplete(wb, wb.rows[i])}

\* the workbook has rows and a LINENO column
Numbered(wb) == wb.sheets = "ok" /\ Len(wb.rows) > 0 /\ wb.has_lineno

UnnumberedRows(wb) == {i \in 1..Len(wb.rows) : wb.rows[i].LINENO = NaN}

\* C16: a row missing a component of the aggregation key is in no output group,
\* and the run output reports how many rows were excluded: the NaN filter prints
\* its number, and the rows without line number are the difference of the two
\* row counts printed before.
C16_ExcludedRowsAreCounted ==
    (pc = "parsed file" /\ Numbered(InputBook) /\ ValidationSucceeded) =>
        /\ Returned.dropped = Cardinality(IncompleteRows(InputBook))
        /\ Returned.read - Returned.with_lineno = Cardinality(UnnumberedRows(InputBook))
        /\ \A i \in IncompleteRows(InputBook) \cup UnnumberedRows(InputBook) :
              \A j \in 1..Len(Returned.df.rows) :
                  OutKey(InputBook, Returned.df.rows[j]) # InKey(InputBook, InputBook.rows[i])

\* of two rows one had no bureau: one output row, one row counted as removed
C16_Witness ==
    /\ pc = "parsed file" /\ Numbered(InputBook) /\ ValidationSucceeded
    /\ Len(InputBook.rows) = 2
    /\ InputBook.rows[1].BUREAU = NaS /\ InputBook.rows[1].LINENO = <<2490>>
    /\ InputBook.rows[2].BUREAU # NaS /\ InputBook.rows[2].LINENO = <<2490>>
    /\ Returned.ret = "df" /\ Len(Returned.df.rows) = 1
    /\ Returned.dropped = 1

\* the files of the 2012 directory whose frame was appended to all_data
Ingested2012 == {i \in 1..Len(outcomes) : outcomes[i].ret = "df" /\ Len(outcomes[i].rows) > 0}

\* the months the ingested files report
ReportedMonths == {outcomes[i].month : i \in Ingested2012}

\* the rows of the ingested frames
FrameRows2012 ==
    UNION {{outcomes[i].rows[j] : j \in 1..Len(outcomes[i].rows)} : i \in Ingested2012}

\* the accounts of the ingested frames: bureau, account, line number, agency
Accounts2012 == {PivotIndex(r) : r \in {x \in FrameRows2012 : x.LINENO # NaN}}

\* the amounts the ingested frames hold for an account and a month
AmountsOf(account, mo) ==
    {r.amount : r \in {x \in FrameRows2012 : PivotIndex(x) = account /\ x.Month = mo}}

\* files of one agency for two different months were ingested
SeveralMonthsOfAnAgency ==
    /\ pc = "parsed 2012"
    /\ \E i, j \in Ingested2012 :
          /\ outcomes[i].rows[1].Agency = outcomes[j].rows[1].Agency
          /\ outcomes[i].month # outcomes[j].month

\* C17: when parse_all_sf133_2012_data has ingested files of one agency for
\* different months, the master table is written with one column per reported
\* month and exactly one record per account (bureau, account, line number,
\* agency); a record holds the amount a file reported for the account and the
\* month, and 0 for a month no file reported for that account
C17_MonthsPivotedPerAccount ==
    SeveralMonthsOfAnAgency =>
        /\ master.exists
        /\ master.months = ReportedMonths
        /\ \A a \in Accounts2012 :
              Cardinality({k \in 1..Len(master.rows) : PivotIndex(master.rows[k]) = a}) = 1
        /\ \A k \in 1..Len(master.rows) :
              /\ PivotIndex(master.rows[k]) \in Accounts2012
              /\ \A mo \in master.months :
                    IF AmountsOf(PivotIndex(master.rows[k]), mo) = {}
                    THEN master.rows[k].amt[mo] = <<0>>
                    ELSE master.rows[k].amt[mo] \in AmountsOf(PivotIndex(master.rows[k]), mo)

\* two rows of a sheet belong to distinct accounts: they differ in the
\* allocation code or in the period of availability
DistinctAccounts(r1, r2) == r1.ALLOC # r2.ALLOC \/ r1.FY1 # r2.FY1 \/ r1.FY2 # r2.FY2

\* an aggregated row is the row of the account of a sheet row
Carries(o, r) ==
    /\ o.BUREAU = r.BUREAU /\ o.OMB_ACCT = r.OMB_ACCT /\ o.LINENO = r.LINENO
    /\ o.ALLOC = r.ALLOC /\ o.FY1 = r.FY1 /\ o.FY2 = r.FY2

\* the rows of a sheet that parse_sf133_2012_file aggregates
Aggregated2012(wb) ==
    {i \in 1..Len(wb.rows) : StandardLine(wb.rows[i]) /\ wb.rows[i].BUREAU # NaS
                             /\ wb.rows[i].OMB_ACCT # NaS}

\* C18: two standard-line rows of a 2012 sheet that differ in the allocation
\* code or in the period of availability are aggregated by
\* parse_sf133_2012_file into two different rows of the frame
C18_DistinctAccountsNotMerged ==
    pc = "parsed 2012" =>
        \A f \in 1..Len(excel_files) :
            (outcomes[f].ret = "df" /\ outcomes[f].has_lineno) =>
                \A i, j \in Aggregated2012(excel_files[f]) :
                    DistinctAccounts(excel_files[f].rows[i], excel_files[f].rows[j]) =>
                        \E a, b \in 1..Len(outcomes[f].rows) :
                            /\ a # b
                            /\ Carries(outcomes[f].rows[a], excel_files[f].rows[i])
                            /\ Carries(outcomes[f].rows[b], excel_files[f].rows[j])

\* the rows of the key of output row o that report a value in month column c
Reporting(wb, o, c) ==
    {i \in KeptRows(wb) : InKey(wb, wb.rows[i]) = OutKey(wb, o) /\ wb.rows[i].amt[c] # NaN}

\* C19: in the table parse_sf133_raw_data aggregates from a sheet, a month
\* for which no row of a key reports a value is missing in the row of that key,
\* and an amount of 0 is the sum of values that rows of the key reported
C19_AbsentMonthStaysAbsent ==
    (pc = "parsed file" /\ Returned.ret = "df" /\ InputBook.has_lineno) =>
        \A j \in 1..Len(Returned.df.rows) : \A c \in InputBook.month_cols :
            LET o == Returned.df.rows[j] IN
            /\ Reporting(InputBook, o, c) = {} => o.amt[RAW_DATA_COLUMN_MAPPING[c]] = NaN
            /\ o.amt[RAW_DATA_COLUMN_MAPPING[c]] = <<0>> => Reporting(InputBook, o, c) # {}

AloneTable(y) ==
    WriteMaster(NoFile, [i \in 1..Len(excel_files[y]) |-> parse_sf133_raw_data(excel_files[y][i])])

\* what process_year_data reports for a year processed alone
AloneSuccess(y) ==
    /\ AloneTable(y).exists
    /\ analyze_year_data(AloneTable(y), y >= run.current_year,
                         IF y = BaselineYear THEN AloneTable(y) ELSE run.found)

\* the table of a year processed alone as site/data holds it at the end
AloneFile(y) ==
    IF y = BaselineYear /\ ~AloneTable(y).exists THEN run.found ELSE AloneTable(y)

\* the summary of a year processed alone
AloneSummary(y) ==
    IF AloneFile(y).exists /\ MetadataEntry(AloneFile(y)) # ""
    THEN create_year_summary(AloneFile(y)) ELSE NoSummary

\* the metadata entry of a year processed alone
AloneMetadata(y) ==
    IF AloneFile(y).exists THEN MetadataEntry(AloneFile(y)) ELSE ""

\* both runs and their summary generation have ended
BothYearsDone == \A y \in DOMAIN pc : pc[y] = "done"

\* C21: for every interleaving of process_year_data and of the summary
\* generation of two fiscal years, each year ends with the normalized table,
\* the verdict, the summary and the metadata entry it has when processed alone
C21_YearsIndependent ==
    BothYearsDone =>
        \A y \in DOMAIN pc :
            /\ site_data[y] = AloneFile(y)
            /\ success[y] = <<AloneSuccess(y)>>
            /\ summary.files[y] = AloneSummary(y)
            /\ summary.metadata[y] = AloneMetadata(y)

\* the run has processed a year whose directory yielded a table
YearProcessed == pc \in {"processed", "exited", "summarized"} /\ run # NoRun /\ AllData(outcomes) # << >>

\* the months without data in the table of the year of the run
MissingOfYear == missing_months(read_csv(File(CombinedTable(AllData(outcomes)))))

\* the year of the run is a completed fiscal year
CompletedYear == run.year < run.current_year

\* the account coverage of the table of the year against the baseline on disk
CoveragePassed ==
    validate_tafs_coverage(read_csv(site_data[run.year]),
                           load_baseline_tafs_data(site_data[BaselineYear]))

\* C22: a completed fiscal year that misses a month other than October ends
\* with its normalized table in site/data, the verdict False and exit code 1;
\* a missing October alone, or missing months of the current fiscal year, leave
\* the verdict to the account-coverage validation
C22_IncompleteYearReportedNotCrashed ==
    YearProcessed =>
        /\ site_data[run.year] = File(CombinedTable(AllData(outcomes)))
        /\ (CompletedYear /\ MissingOfYear \ {"Oct"} # {}) =>
              /\ success = <<FALSE>>
              /\ pc = "exited" => exit_code = <<1>>
        /\ (~CompletedYear \/ MissingOfYear \subseteq {"Oct"}) => success = <<CoveragePassed>>

\* a completed year without data for months other than October has exited
\* with code 1 and its table is in site/data
C22_Witness ==
    /\ YearProcessed /\ pc = "exited"
    /\ CompletedYear
    /\ MissingOfYear \ {"Oct"} # {}
    /\ site_data[run.year].exists /\ Len(site_data[run.year].rows) > 0
    /\ exit_code = <<1>>

\* C30: when site/data holds no table of the baseline year, a year whose
\* months are complete (or that is the current fiscal year) passes
\* process_year_data: the account-coverage validation counts as passed
C30_MissingBaselineSkipsCoverage ==
    (YearProcessed /\ ~site_data[BaselineYear].exists
     /\ (~CompletedYear \/ MissingOfYear \subseteq {"Oct"})) => success = <<TRUE>>

\* C23: every account of the catch-all agency that has a line-2490 row and a
\* line-2500 row with the same fund symbol in the table of the year has a
\* record in the summary create_year_summary writes
C23_CatchAllAccountsSummarized ==
    (pc = "summarized" /\ run # NoRun) =>
        \A i, j \in 1..Len(YearRows) :
            (/\ YearRows[i].Agency = OIA /\ YearRows[j].Agency = OIA
             /\ YearRows[i].LINENO = <<2490>> /\ YearRows[j].LINENO = <<2500>>
             /\ YearRows[i].TAFS # NaS /\ YearRows[i].TAFS = YearRows[j].TAFS) =>
                \E k \in 1..Len(summary.records) :
                    /\ summary.records[k].Agency = OIA
                    /\ summary.records[k].TAFS = YearRows[i].TAFS

\* the cells before cell i of the column that hold a value that is no line number
Carriable(i) ==
    {j \in 1..(i - 1) : detail_master[j] # NaS /\ ~MatchesLineNumber(detail_master[j])}

\* C24: after the forward fill a missing cell holds the value of the nearest
\* cell before it that holds a value that is no line number (it stays missing
\* when there is none), and every other cell, line numbers included, is left
\* as it was
C24_ForwardFillSkipsLineNumbers ==
    pc = "filled" =>
        /\ Len(derived.filled) = Len(detail_master)
        /\ \A i \in 1..Len(detail_master) :
              IF detail_master[i] # NaS THEN derived.filled[i] = detail_master[i]
              ELSE IF Carriable(i) = {} THEN derived.filled[i] = NaS
              ELSE derived.filled[i] =
                      detail_master[CHOOSE j \in Carriable(i) : \A k \in Carriable(i) : k <= j]

\* a missing cell after a line number took the fund symbol in front of the
\* line number
C24_Witness ==
    /\ pc = "filled"
    /\ Len(detail_master) >= 3
    /\ detail_master[1] = TafsAlloc91
    /\ MatchesLineNumber(detail_master[2])
    /\ detail_master[3] = NaS
    /\ derived.filled[3] = TafsAlloc91
    /\ derived.filled[2] = detail_master[2]

\* the stages of the run that have ended, in order
StagesRun == [i \in 1..Len(outcomes) |-> outcomes[i].stage]

\* the stage has run in this run and succeeded
Succeeded(name) == \E i \in 1..Len(outcomes) : outcomes[i] = Stage(name, TRUE)

\* C25: in process_new_month the website master table differs from the one
\* the run found only after the backup succeeded and the integrity tests ran
\* without a failed test in this run, and it is then the new table; a stage
\* that failed is the last stage that ran, and after a failed backup, download,
\* processing or test stage the website master table is the one the run found
C25_WebsiteUpdatedOnlyAfterTests ==
    pc \in {"backup", "download", "process", "test", "update", "returned"} =>
        /\ master # run.previous =>
              /\ Succeeded("backup") /\ Succeeded("processing") /\ Succeeded("tests")
              /\ derived.failed_test = 0
              /\ master = derived.new_data
        /\ \A i \in 1..Len(outcomes) :
              ~outcomes[i].ok =>
                  /\ i = Len(outcomes)
                  /\ pc = "returned" /\ success = <<FALSE>>
                  /\ outcomes[i].stage # "website update" => master = run.previous

\* the tests failed at the completeness test and the run returned False with
\* the website master table untouched
C25_Witness ==
    /\ pc = "returned"
    /\ StagesRun = <<"backup", "download", "processing", "tests">>
    /\ derived.failed_test = 5
    /\ derived.new_data.exists /\ derived.new_data # run.previous
    /\ master = run.previous
    /\ success = <<FALSE>>

\* C26: when update_with_new_month ends in failure (exit code 1), whatever
\* stage failed, comprehensive tests included, the website master table is the
\* one the run found
C26_FailedUpdateLeavesWebsite ==
    (pc = "exited" /\ exit_code = <<1>>) => master = run.previous

\* the processing pipeline succeeded and replaced the website master table,
\* then the comprehensive tests failed and the run ended in failure
C26_UpdatedThenFailed ==
    /\ pc = "exited" /\ exit_code = <<1>> /\ success = <<FALSE>>
    /\ Succeeded("website update")
    /\ outcomes[Len(outcomes)] = Stage("comprehensive tests", FALSE)
    /\ master = derived.new_data /\ master # run.previous

\* the places of the normalized table whose column is named m
ColumnsNamed(m) == {i \in 1..Len(derived.columns) : derived.columns[i] = m}

\* C28: after the column normalization the quarterly columns AMT1..AMT4 are
\* named Dec, Mar, Jun and Sep, and each of the twelve month keys names at
\* most one column of the table, whatever amount columns the sheet carries
C28_MonthKeyProducedOnce ==
    pc = "renamed" =>
        /\ \A i \in 1..Len(run.columns) :
              /\ run.columns[i] = "AMT1" => derived.columns[i] = "Dec"
              /\ run.columns[i] = "AMT2" => derived.columns[i] = "Mar"
              /\ run.columns[i] = "AMT3" => derived.columns[i] = "Jun"
              /\ run.columns[i] = "AMT4" => derived.columns[i] = "Sep"
        /\ \A m \in MonthNames : Cardinality(ColumnsNamed(m)) <= 1

\* a sheet with AMT_DEC and AMT1 has two columns named Dec after the
\* normalization
C28_TwoColumnsNamedDec ==
    /\ pc = "renamed"
    /\ \E i, j \in 1..Len(run.columns) :
          /\ run.columns[i] = "AMT_DEC" /\ run.columns[j] = "AMT1"
          /\ derived.columns[i] = "Dec" /\ derived.columns[j] = "Dec"
    /\ Cardinality(ColumnsNamed("Dec")) = 2

\* when no quarter-end month comes with its quarter column, every month key
\* names at most one column
C28_SingleSourceKeysDistinct ==
    (pc = "renamed"
     /\ \A i, j \in 1..Len(run.columns) :
           (/\ i # j
            /\ run.columns[i] \in DOMAIN RAW_DATA_COLUMN_MAPPING
            /\ run.columns[j] \in DOMAIN RAW_DATA_COLUMN_MAPPING)
           => RAW_DATA_COLUMN_MAPPING[run.columns[i]] # RAW_DATA_COLUMN_MAPPING[run.columns[j]])
    => \A m \in MonthNames : Cardinality(ColumnsNamed(m)) <= 1

\* the output rows a kept input row contributes to
GroupsOf(wb, out, i) == {j \in 1..Len(out) : OutKey(wb, out[j]) = InKey(wb, wb.rows[i])}

\* C27: for every month column of a file, the sum of the month over the rows
\* parse_sf133_raw_data returns equals the sum of that month, in the unit of
\* the output, over the input rows with a line number in 1000..9999 and a
\* complete grouping key, and each of these rows belongs to exactly one
\* output row
C27_AggregationConservesAmounts ==
    (pc = "parsed file" /\ Returned.ret = "df" /\ InputBook.has_lineno) =>
        LET wb == InputBook
            out == Returned.df.rows
        IN /\ \A c \in wb.month_cols :
                 SumOfAmounts(out, 1..Len(out), RAW_DATA_COLUMN_MAPPING[c])
                    = Multiplier(wb) * SumOfAmounts(wb.rows, KeptRows(wb), c)
           /\ \A i \in KeptRows(wb) : Cardinality(GroupsOf(wb, out, i)) = 1
           /\ \A j \in 1..Len(out) : \E i \in KeptRows(wb) : j \in GroupsOf(wb, out, i)

\* a file with a row that does not reach the aggregation and carries 100, and
\* a row that does and carries 50: the month sums to 50 in the output
C27_Witness ==
    /\ pc = "parsed file" /\ Returned.ret = "df" /\ InputBook.has_lineno
    /\ \E i, k \in 1..Len(InputBook.rows) :
          /\ i \notin KeptRows(InputBook) /\ InputBook.rows[i].amt["AMT_SEP"] = <<100>>
          /\ k \in KeptRows(InputBook) /\ InputBook.rows[k].amt["AMT_SEP"] = <<50>>
    /\ SumOfAmounts(Returned.df.rows, 1..Len(Returned.df.rows), "Sep") = 50

\* the years main approved
ApprovedYears == {derived.passing_both_sorted[i] : i \in 1..Len(derived.passing_both_sorted)}

\* C29: main approves exactly the years passing both suites and records them;
\* the files missing from site/data are files of years with data that are not
\* approved, and none is missing in GitHub Actions mode; every file main's
\* generators wrote is a file of an approved year; a run that approves no year
\* returns 1 with the files it found, and a run that returns 1 approved none
C29_OnlyUnapprovedYearsRemoved ==
    pc \in {"completeness", "structure", "approve", "cleanup", "monthly",
            "year summaries", "returned"} =>
        /\ (pc \in {"cleanup", "monthly", "year summaries"}
            \/ (pc = "returned" /\ exit_code = <<0>>)) =>
              /\ ApprovedYears = derived.completeness_passing_years
                                    \cap derived.structure_passing_years
              /\ ApprovedYears # {}
              /\ derived.approved_years = <<derived.passing_both_sorted>>
        /\ \A f \in run.files \ site_data.files :
              /\ ~run.is_github_actions
              /\ year_of(f) # << >> /\ year_of(f)[1] \notin ApprovedYears
        /\ \A f \in derived.generated \cup (site_data.files \ run.files) :
              /\ ~run.is_github_actions
              /\ year_of(f) # << >> /\ year_of(f)[1] \in ApprovedYears
        /\ (pc = "returned" /\ ApprovedYears = {}) =>
              (exit_code = <<1>> /\ site_data.files = run.files)
        /\ (pc = "returned" /\ exit_code = <<1>>) => ApprovedYears = {}

\* a local run approved 2025 only: the three files of 2024 are gone, the file
\* with the undated name and the files of 2025 are there, and the monthly
\* files and the year summary of 2025 were generated
C29_Witness ==
    /\ pc = "returned" /\ exit_code = <<0>>
    /\ ~run.is_github_actions
    /\ ApprovedYears = {2025}
    /\ 2024 \in derived.completeness_passing_years
    /\ run.files = InitialSummaryFiles
    /\ site_data.files \cap {ObligationCsv(2024), SummaryJson(2024), MonthlyCsv(2024, "Aug")} = {}
    /\ SummaryFile("summary json", <<2024, "old">>) \in site_data.files
    /\ {ObligationCsv(2025), SummaryJson(2025), MonthlyCsv(2025, "Aug")} \subseteq site_data.files
    /\ MonthlyCsv(2025, "all") \in derived.generated
    /\ derived.successful_year_summaries = <<2025>>

====
